---- MODULE Spec2Model ----
(***************************************************************************)
(* State-machine model of the strong/weak reference-counted handles of     *)
(* smart-ptrs: ControlBlockWithPtr / ControlBlockOwning, SharedPtr,        *)
(* WeakPtr, MakeShared and EnableSharedFromThis.                           *)
(*                                                                         *)
(* A payload destructor (delete ptr_ / ~Y()) runs in several steps: while  *)
(* it runs, `stack` holds the frame of the DecrementRefCounter call that   *)
(* started it, together with what the calling handle operation still has   *)
(* to do once DecrementRefCounter returns.                                 *)
(*                                                                         *)
(* IntrusivePtr with RefCounted, and UniquePtr, are modelled next to them. *)
(* The three libraries share no state: an operation of one leaves the      *)
(* variables of the other two unchanged.                                   *)
(***************************************************************************)
EXTENDS Integers, Sequences, FiniteSets, TLC

\* ---- bounds of the model ----
MaxBlocks == 2      \* control blocks ever allocated
NumShared == 2      \* SharedPtr objects that can exist at once
NumWeak == 2        \* WeakPtr objects that can exist at once (besides weak_this_)
MaxPtr == 1         \* non-null pointers given to the aliasing constructor: 1..MaxPtr
CounterMod == 16    \* size_t counters wrap modulo this (stand-in for 2^64)
NumCopies == 4      \* SharedPtr objects in the scenario of one construction and its copies
NumAssign == 3      \* SharedPtr objects in the scenario of assignments
MaxObjs == 2        \* RefCounted objects ever allocated
NumIntrusive == 3   \* IntrusivePtr objects that can exist at once
MaxMem == 3         \* objects ever allocated for UniquePtr
NumUnique == 2      \* UniquePtr objects that can exist at once

Null == 0

BlockIds == 1..MaxBlocks
SharedIds == 1..NumShared
WeakIds == 1..NumWeak
\* Pointer b is the address of the payload of block b.
Ptrs == 1..MaxPtr

\* Pointer o is the address of RefCounted object o; pointer m is the address
\* of object m given to a UniquePtr.
ObjIds == 1..MaxObjs
IntrusiveIds == 1..NumIntrusive
MemIds == 1..MaxMem
\* The values a deleter object can have; Deleter() gives DefaultDeleter.
DeleterIds == 1..2
DefaultDeleter == 1
UniqueIds == 1..NumUnique

VARIABLES blocks, sh, wk, stack, last,   \* SharedPtr / WeakPtr
          objs, ip,                      \* RefCounted objects, IntrusivePtr objects
          mem, up                        \* objects given to UniquePtr, UniquePtr objects
svars == <<blocks, sh, wk, stack, last>>
ivars == <<objs, ip>>
uvars == <<mem, up>>
vars == <<blocks, sh, wk, stack, last, objs, ip, mem, up>>

Inc(x) == (x + 1) % CounterMod
Dec(x) == (x + CounterMod - 1) % CounterMod

\* A handle object that does not exist (not constructed, or destroyed).
NoShared == [live |-> FALSE, block_ |-> Null, observer_ |-> Null]
NoWeak == [live |-> FALSE, block_ |-> Null, observer_ |-> Null]
NoWeakThis == [live |-> FALSE, block_ |-> Null, observer_ |-> Null]

\* Memory in which no control block has been allocated.  dtors and deleted
\* count the runs of the payload destructor and of `delete this`.
NoBlock ==
    [kind |-> "none", esft |-> FALSE, ref_counter_ |-> 0, weak_ref_counter_ |-> 0,
     payload |-> "none", dtors |-> 0, deleted |-> 0, ub |-> FALSE,
     weak_this_ |-> NoWeakThis]

\* delete this: the memory of the block is released; what remains is the
\* record of what happened to it.
Deleted(c) ==
    [NoBlock EXCEPT !.kind = "deleted", !.payload = c.payload,
                    !.dtors = c.dtors, !.deleted = c.deleted + 1]

\* ---------------------------------------------------------------------
\* ControlBlockWithPtr<Y>
\* ---------------------------------------------------------------------
WithPtr_New(esft) ==
    [kind |-> "WithPtr", esft |-> esft, ref_counter_ |-> 0, weak_ref_counter_ |-> 0,
     payload |-> "alive", dtors |-> 0, deleted |-> 0, ub |-> FALSE,
     weak_this_ |-> [live |-> esft, block_ |-> Null, observer_ |-> Null]]

WithPtr_IncrementRefCounter(c) ==
    [c EXCEPT !.ref_counter_ = Inc(@), !.weak_ref_counter_ = Inc(@)]

\* if (weak_ref_counter_ == 0) delete this;
WithPtr_DeleteThisIfZero(c) ==
    IF c.weak_ref_counter_ = 0 THEN Deleted(c) ELSE c

\* Mutation: the payload is destroyed when the weak count, not the strong
\* count, has reached zero.
WithPtr_DecrementRefCounter_TestsWeak(c) ==
    LET c1 == [c EXCEPT !.ref_counter_ = Dec(@), !.weak_ref_counter_ = Dec(@)]
    IN IF c1.weak_ref_counter_ = 0
       THEN [c1 EXCEPT !.weak_ref_counter_ = Inc(@),
                       !.payload = "destroying",
                       !.dtors = @ + 1,
                       !.ub = @ \/ c.payload # "alive"]
       ELSE c1

\* Mutation: no extra weak count is taken around the payload destructor.
WithPtr_DecrementRefCounter_NoGuard(c) ==
    LET c1 == [c EXCEPT !.ref_counter_ = Dec(@), !.weak_ref_counter_ = Dec(@)]
    IN IF c1.ref_counter_ = 0
       THEN [c1 EXCEPT !.payload = "destroying",
                       !.dtors = @ + 1,
                       !.ub = @ \/ c.payload # "alive"]
       ELSE WithPtr_DeleteThisIfZero(c1)

\* DecrementRefCounter up to the call of the payload destructor (delete ptr_);
\* when the strong count stays positive, the whole function.
WithPtr_DecrementRefCounter(c) ==
    LET c1 == [c EXCEPT !.ref_counter_ = Dec(@), !.weak_ref_counter_ = Dec(@)]
    IN IF c1.ref_counter_ = 0
       THEN [c1 EXCEPT !.weak_ref_counter_ = Inc(@),
                       !.payload = "destroying",
                       !.dtors = @ + 1,
                       !.ub = @ \/ c.payload # "alive"]
       ELSE WithPtr_DeleteThisIfZero(c1)

\* DecrementRefCounter from the return of the payload destructor on.
WithPtr_DecrementRefCounterReturn(c) ==
    WithPtr_DeleteThisIfZero(
        [c EXCEPT !.payload = "destroyed", !.weak_ref_counter_ = Dec(@)])

\* Mutation: a weak reference is counted as a strong one as well.
WithPtr_IncrementWeakRefCounter_Strong(c) ==
    [c EXCEPT !.ref_counter_ = Inc(@), !.weak_ref_counter_ = Inc(@)]

WithPtr_IncrementWeakRefCounter(c) ==
    [c EXCEPT !.weak_ref_counter_ = Inc(@)]

\* Mutation: the block is deleted one reference too early.
WithPtr_DecrementWeakRefCounter_OffByOne(c) ==
    LET c1 == [c EXCEPT !.weak_ref_counter_ = Dec(@)]
    IN IF c1.weak_ref_counter_ <= 1 THEN Deleted(c1) ELSE c1

WithPtr_DecrementWeakRefCounter(c) ==
    WithPtr_DeleteThisIfZero([c EXCEPT !.weak_ref_counter_ = Dec(@)])

\* Mutation: the weak count is reported as the strong count.
WithPtr_GetRefCount_Weak(c) == c.weak_ref_counter_

WithPtr_GetRefCount(c) == c.ref_counter_

\* ---------------------------------------------------------------------
\* ControlBlockOwning<Y>
\* ---------------------------------------------------------------------
Owning_New(esft) ==
    [kind |-> "Owning", esft |-> esft, ref_counter_ |-> 0, weak_ref_counter_ |-> 0,
     payload |-> "alive", dtors |-> 0, deleted |-> 0, ub |-> FALSE,
     weak_this_ |-> [live |-> esft, block_ |-> Null, observer_ |-> Null]]

\* Mutation: a new SharedPtr is counted as a weak reference only.
Owning_IncrementRefCounter_WeakOnly(c) ==
    [c EXCEPT !.weak_ref_counter_ = Inc(@)]

Owning_IncrementRefCounter(c) ==
    [c EXCEPT !.ref_counter_ = Inc(@), !.weak_ref_counter_ = Inc(@)]

Owning_DeleteThisIfZero(c) ==
    IF c.weak_ref_counter_ = 0 THEN Deleted(c) ELSE c

\* Mutation: the inline block takes no extra weak count around ~Y().
Owning_DecrementRefCounter_NoGuard(c) ==
    LET c1 == [c EXCEPT !.ref_counter_ = Dec(@), !.weak_ref_counter_ = Dec(@)]
    IN IF c1.ref_counter_ = 0
       THEN [c1 EXCEPT !.payload = "destroying",
                       !.dtors = @ + 1,
                       !.ub = @ \/ c.payload # "alive"]
       ELSE Owning_DeleteThisIfZero(c1)

Owning_DecrementRefCounter(c) ==
    LET c1 == [c EXCEPT !.ref_counter_ = Dec(@), !.weak_ref_counter_ = Dec(@)]
    IN IF c1.ref_counter_ = 0
       THEN [c1 EXCEPT !.weak_ref_counter_ = Inc(@),
                       !.payload = "destroying",
                       !.dtors = @ + 1,
                       !.ub = @ \/ c.payload # "alive"]
       ELSE Owning_DeleteThisIfZero(c1)

\* Mutation: the extra weak count taken around the payload destructor is
\* never given back.
Owning_DecrementRefCounterReturn_KeepsGuard(c) ==
    Owning_DeleteThisIfZero([c EXCEPT !.payload = "destroyed"])

Owning_DecrementRefCounterReturn(c) ==
    Owning_DeleteThisIfZero(
        [c EXCEPT !.payload = "destroyed", !.weak_ref_counter_ = Dec(@)])

Owning_IncrementWeakRefCounter(c) ==
    [c EXCEPT !.weak_ref_counter_ = Inc(@)]

Owning_DecrementWeakRefCounter(c) ==
    Owning_DeleteThisIfZero([c EXCEPT !.weak_ref_counter_ = Dec(@)])

Owning_GetRefCount(c) == c.ref_counter_

\* ---------------------------------------------------------------------
\* ControlBlockBase: virtual dispatch on a block of the heap `bl`.
\* A call on a block that was already deleted is undefined behaviour:
\* it is recorded in `ub` and the model takes no step after it.
\* ---------------------------------------------------------------------
Freed(c) == [c EXCEPT !.ub = TRUE]

IncrementRefCounter(bl, b) ==
    [bl EXCEPT ![b] = IF @.deleted > 0 THEN Freed(@)
                      ELSE IF @.kind = "WithPtr" THEN WithPtr_IncrementRefCounter(@)
                      ELSE Owning_IncrementRefCounter(@)]

DecrementRefCounter(bl, b) ==
    [bl EXCEPT ![b] = IF @.deleted > 0 THEN Freed(@)
                      ELSE IF @.kind = "WithPtr" THEN WithPtr_DecrementRefCounter(@)
                      ELSE Owning_DecrementRefCounter(@)]

DecrementRefCounterReturn(bl, b) ==
    [bl EXCEPT ![b] = IF @.deleted > 0 THEN Freed(@)
                      ELSE IF @.kind = "WithPtr" THEN WithPtr_DecrementRefCounterReturn(@)
                      ELSE Owning_DecrementRefCounterReturn(@)]

IncrementWeakRefCounter(bl, b) ==
    [bl EXCEPT ![b] = IF @.deleted > 0 THEN Freed(@)
                      ELSE IF @.kind = "WithPtr" THEN WithPtr_IncrementWeakRefCounter(@)
                      ELSE Owning_IncrementWeakRefCounter(@)]

DecrementWeakRefCounter(bl, b) ==
    [bl EXCEPT ![b] = IF @.deleted > 0 THEN Freed(@)
                      ELSE IF @.kind = "WithPtr" THEN WithPtr_DecrementWeakRefCounter(@)
                      ELSE Owning_DecrementWeakRefCounter(@)]

GetRefCount(bl, b) ==
    IF bl[b].kind = "WithPtr" THEN WithPtr_GetRefCount(bl[b]) ELSE Owning_GetRefCount(bl[b])

\* Some call has touched a deleted block or destroyed a payload twice.
UB == \E b \in BlockIds : blocks[b].ub

\* The payload destructor of block b was entered by the call that took bl0 to bl1.
TeardownStarted(bl0, bl1, b) ==
    bl0[b].deleted = 0 /\ bl1[b].dtors > bl0[b].dtors /\ ~bl1[b].ub

\* ---------------------------------------------------------------------
\* Handles
\* ---------------------------------------------------------------------
EmptyShared == [live |-> TRUE, block_ |-> Null, observer_ |-> Null]
EmptyWeak == [live |-> TRUE, block_ |-> Null, observer_ |-> Null]

\* SharedPtr::UseCount / WeakPtr::UseCount
SharedPtr_UseCount(bl, h) == IF h.block_ # Null THEN GetRefCount(bl, h.block_) ELSE 0
WeakPtr_UseCount(bl, h) == IF h.block_ # Null THEN GetRefCount(bl, h.block_) ELSE 0
\* Mutation: a WeakPtr counts as expired only when its block has no
\* reference of any kind left.
WeakPtr_Expired_ByWeakCount(bl, h) ==
    h.block_ = Null \/ bl[h.block_].weak_ref_counter_ = 0

\* WeakPtr::Expired
WeakPtr_Expired(bl, h) == WeakPtr_UseCount(bl, h) = 0
\* SharedPtr::Get, operator bool, operator==
SharedPtr_Get(h) == h.observer_
SharedPtr_Bool(h) == h.observer_ # Null
\* Mutation: handles are compared by their control blocks.
SharedPtr_Equal_ByBlock(l, r) == l.block_ = r.block_
SharedPtr_Equal(l, r) == SharedPtr_Get(l) = SharedPtr_Get(r)

\* The address operator new returns: a block never allocated before.
HasFreeBlock == \E b \in BlockIds : blocks[b].kind = "none"
NewBlock == CHOOSE b \in BlockIds :
                /\ blocks[b].kind = "none"
                /\ \A c \in BlockIds : c < b => blocks[c].kind # "none"

\* Body of WeakPtr::operator=(WeakPtr other) on the counters, followed by
\* the destruction of the by-value parameter `other`; cur is this->block_
\* on entry, ob is other.block_.
WeakPtr_OperatorAssign(bl, cur, ob) ==
    LET bl1 == IF cur # Null THEN DecrementWeakRefCounter(bl, cur) ELSE bl
        bl2 == IF ob # Null THEN IncrementWeakRefCounter(bl1, ob) ELSE bl1
    IN IF ob # Null THEN DecrementWeakRefCounter(bl2, ob) ELSE bl2

\* Mutation: weak_this_ is left empty.
InstallWeakThis_Skipped(bl, b, p) == bl

\* ptr->weak_this_ = WeakPtr(*this) for the handle (b, p).
InstallWeakThis(bl, b, p) ==
    LET bl1 == IncrementWeakRefCounter(bl, b)
        bl2 == WeakPtr_OperatorAssign(bl1, bl1[b].weak_this_.block_, b)
    IN [bl2 EXCEPT ![b].weak_this_ = [live |-> TRUE, block_ |-> b, observer_ |-> p]]

\* Mutation: the raw-pointer constructor does not count its own handle.
SharedPtr_FromPtrHeap_NoIncrement(bl, b, esft) ==
    LET bl1 == [bl EXCEPT ![b] = WithPtr_New(esft)]
    IN IF esft THEN InstallWeakThis(bl1, b, b) ELSE bl1

\* explicit SharedPtr(Y* ptr): the heap after constructing a handle on new block b.
SharedPtr_FromPtrHeap(bl, b, esft) ==
    LET bl1 == IncrementRefCounter([bl EXCEPT ![b] = WithPtr_New(esft)], b)
    IN IF esft THEN InstallWeakThis(bl1, b, b) ELSE bl1

\* MakeShared<T>(args...): the heap after constructing a handle on new block b.
MakeSharedHeap(bl, b, esft) ==
    LET bl1 == IncrementRefCounter([bl EXCEPT ![b] = Owning_New(esft)], b)
    IN IF esft THEN InstallWeakThis(bl1, b, b) ELSE bl1

\* Mutation: only an empty WeakPtr is rejected, an expired one is promoted.
SharedPtr_Promote_NullCheckOnly(bl, wh) ==
    IF wh.block_ = Null
    THEN [thrown |-> TRUE, h |-> NoShared, bl |-> bl]
    ELSE [thrown |-> FALSE,
          h |-> [live |-> TRUE, block_ |-> wh.block_, observer_ |-> wh.observer_],
          bl |-> IncrementRefCounter(bl, wh.block_)]

\* Mutation: the cached pointer of the WeakPtr is not taken over.
SharedPtr_Promote_NoObserver(bl, wh) ==
    IF WeakPtr_Expired(bl, wh)
    THEN [thrown |-> TRUE, h |-> NoShared, bl |-> bl]
    ELSE [thrown |-> FALSE,
          h |-> [live |-> TRUE, block_ |-> wh.block_, observer_ |-> Null],
          bl |-> IF wh.block_ # Null THEN IncrementRefCounter(bl, wh.block_) ELSE bl]

\* explicit SharedPtr(const WeakPtr<T>& other): the exception, or the new
\* handle and the heap.
SharedPtr_Promote(bl, wh) ==
    IF WeakPtr_Expired(bl, wh)
    THEN [thrown |-> TRUE, h |-> NoShared, bl |-> bl]
    ELSE [thrown |-> FALSE,
          h |-> [live |-> TRUE, block_ |-> wh.block_, observer_ |-> wh.observer_],
          bl |-> IF wh.block_ # Null THEN IncrementRefCounter(bl, wh.block_) ELSE bl]

\* Mutation: Lock() promotes without asking Expired() first.
WeakPtr_LockResult_NoExpiredTest(bl, wh) == SharedPtr_Promote(bl, wh)

\* WeakPtr::Lock
WeakPtr_LockResult(bl, wh) ==
    IF WeakPtr_Expired(bl, wh)
    THEN [thrown |-> FALSE, h |-> EmptyShared, bl |-> bl]
    ELSE SharedPtr_Promote(bl, wh)

Idle == stack = <<>> /\ ~UB

\* `last` tells what the last operation was, for the operations whose claims
\* need it, and whether it threw BadWeakPtr.
Recorded == {"WeakPtr_Lock", "SharedPtr_FromWeak", "WeakPtr_Dtor", "SharedPtr_Move",
             "Teardown_Return", "SharedFromThis", "Teardown_SharedFromThis"}
Op(name, t) == [op |-> IF name \in Recorded THEN name ELSE "-", thrown |-> t]

DtorFrame(b) == [blk |-> b, op |-> "dtor", dst |-> 0, oblock |-> Null, oobs |-> Null]
AssignFrame(b, d, ob, oo) == [blk |-> b, op |-> "assign", dst |-> d, oblock |-> ob, oobs |-> oo]

\* Mutation: operator= adopts the block of `other` without counting itself.
SharedPtr_AssignRest_NoIncrement(d, bl1, sh0, ob, oo, stk) ==
    LET bl3 == IF ob # Null THEN DecrementRefCounter(bl1, ob) ELSE bl1
    IN /\ sh' = [sh0 EXCEPT ![d].block_ = ob, ![d].observer_ = oo]
       /\ blocks' = bl3
       /\ stack' = IF ob # Null /\ TeardownStarted(bl1, bl3, ob)
                   THEN <<DtorFrame(ob)>> \o stk ELSE stk

\* SharedPtr::operator=(SharedPtr other) from `block_ = other.block_` on,
\* followed by the destruction of the by-value parameter `other`.
SharedPtr_AssignRest(d, bl1, sh0, ob, oo, stk) ==
    LET bl2 == IF ob # Null THEN IncrementRefCounter(bl1, ob) ELSE bl1
        bl3 == IF ob # Null THEN DecrementRefCounter(bl2, ob) ELSE bl2
    IN /\ sh' = [sh0 EXCEPT ![d].block_ = ob, ![d].observer_ = oo]
       /\ blocks' = bl3
       /\ stack' = IF ob # Null /\ TeardownStarted(bl2, bl3, ob)
                   THEN <<DtorFrame(ob)>> \o stk ELSE stk

\* SharedPtr::operator=(SharedPtr other) on handle d; `other` = (ob, oo) has
\* been constructed already, giving heap bl0 and handles sh0.
SharedPtr_OperatorAssign(d, bl0, sh0, ob, oo) ==
    LET cur == sh0[d].block_
        bl1 == IF cur # Null THEN DecrementRefCounter(bl0, cur) ELSE bl0
    IN IF cur # Null /\ TeardownStarted(bl0, bl1, cur)
       THEN /\ blocks' = bl1
            /\ sh' = sh0
            /\ stack' = <<AssignFrame(cur, d, ob, oo)>> \o stack
       ELSE SharedPtr_AssignRest(d, bl1, sh0, ob, oo, stack)

\* Memory in which no RefCounted object has been allocated.  destroyed
\* counts the calls of Deleter::Destroy; held tells that IncRef was called;
\* ub tells that the object was used after Destroy.
NoObject == [state |-> "none", count_ |-> 0, destroyed |-> 0, held |-> FALSE, ub |-> FALSE]
\* An IntrusivePtr object that does not exist (not constructed, or destroyed).
NoIntrusive == [live |-> FALSE, observer_ |-> Null]

InitIntrusive ==
    /\ objs = [o \in ObjIds |-> NoObject]
    /\ ip = [i \in IntrusiveIds |-> NoIntrusive]

\* Memory in which no object has been allocated.  deleted counts the calls
\* of a deleter with this pointer; released tells that Release() returned it.
NoMem == [state |-> "none", deleted |-> 0, released |-> FALSE]
\* A UniquePtr object that does not exist (not constructed, or destroyed).
NoUnique == [live |-> FALSE, ptr |-> Null, deleter |-> DefaultDeleter]

InitUnique ==
    /\ mem = [m \in MemIds |-> NoMem]
    /\ up = [u \in UniqueIds |-> NoUnique]

Init ==
    /\ blocks = [b \in BlockIds |-> NoBlock]
    /\ sh = [s \in SharedIds |-> NoShared]
    /\ wk = [w \in WeakIds |-> NoWeak]
    /\ stack = <<>>
    /\ last = [op |-> "-", thrown |-> FALSE]
    /\ InitIntrusive /\ InitUnique

\* ---------------------------------------------------------------------
\* SharedPtr operations
\* ---------------------------------------------------------------------
\* SharedPtr() / SharedPtr(nullptr)
SharedPtr_Default(s) ==
    /\ Idle /\ ~sh[s].live
    /\ sh' = [sh EXCEPT ![s] = EmptyShared]
    /\ last' = Op("SharedPtr_Default", FALSE)
    /\ UNCHANGED <<blocks, wk, stack>>

\* explicit SharedPtr(Y* ptr)
SharedPtr_FromPtr(s, esft) ==
    /\ Idle /\ ~sh[s].live /\ HasFreeBlock
    /\ blocks' = SharedPtr_FromPtrHeap(blocks, NewBlock, esft)
    /\ sh' = [sh EXCEPT ![s] = [live |-> TRUE, block_ |-> NewBlock, observer_ |-> NewBlock]]
    /\ last' = Op("SharedPtr_FromPtr", FALSE)
    /\ UNCHANGED <<wk, stack>>

MakeShared(s, esft) ==
    /\ Idle /\ ~sh[s].live /\ HasFreeBlock
    /\ blocks' = MakeSharedHeap(blocks, NewBlock, esft)
    /\ sh' = [sh EXCEPT ![s] = [live |-> TRUE, block_ |-> NewBlock, observer_ |-> NewBlock]]
    /\ last' = Op("MakeShared", FALSE)
    /\ UNCHANGED <<wk, stack>>

\* SharedPtr(const SharedPtr& other)
SharedPtr_Copy(s, o) ==
    /\ Idle /\ ~sh[s].live /\ sh[o].live
    /\ sh' = [sh EXCEPT ![s] = sh[o]]
    /\ blocks' = IF sh[o].block_ # Null THEN IncrementRefCounter(blocks, sh[o].block_) ELSE blocks
    /\ last' = Op("SharedPtr_Copy", FALSE)
    /\ UNCHANGED <<wk, stack>>

\* Mutation: the source of the move keeps its block and pointer.
SharedPtr_Move_SourceKept(s, o) ==
    /\ Idle /\ ~sh[s].live /\ sh[o].live
    /\ sh' = [sh EXCEPT ![s] = sh[o]]
    /\ last' = Op("SharedPtr_Move", FALSE)
    /\ UNCHANGED <<blocks, wk, stack>>

\* Mutation: other.observer_ is not reset.
SharedPtr_Move_ObserverKept(s, o) ==
    /\ Idle /\ ~sh[s].live /\ sh[o].live
    /\ sh' = [sh EXCEPT ![s] = sh[o], ![o] = [EmptyShared EXCEPT !.observer_ = sh[o].observer_]]
    /\ last' = Op("SharedPtr_Move", FALSE)
    /\ UNCHANGED <<blocks, wk, stack>>

\* SharedPtr(SharedPtr&& other)
SharedPtr_Move(s, o) ==
    /\ Idle /\ ~sh[s].live /\ sh[o].live
    /\ sh' = [sh EXCEPT ![s] = sh[o], ![o] = EmptyShared]
    /\ last' = Op("SharedPtr_Move", FALSE)
    /\ UNCHANGED <<blocks, wk, stack>>

\* Mutation: the aliasing constructor does not take a strong reference.
SharedPtr_Alias_NoIncrement(s, o, p) ==
    /\ Idle /\ ~sh[s].live /\ sh[o].live
    /\ sh' = [sh EXCEPT ![s] = [live |-> TRUE, block_ |-> sh[o].block_, observer_ |-> p]]
    /\ last' = Op("SharedPtr_Alias", FALSE)
    /\ UNCHANGED <<blocks, wk, stack>>

\* SharedPtr(const SharedPtr<Y>& other, T* ptr)
SharedPtr_Alias(s, o, p) ==
    /\ Idle /\ ~sh[s].live /\ sh[o].live
    /\ sh' = [sh EXCEPT ![s] = [live |-> TRUE, block_ |-> sh[o].block_, observer_ |-> p]]
    /\ blocks' = IF sh[o].block_ # Null THEN IncrementRefCounter(blocks, sh[o].block_) ELSE blocks
    /\ last' = Op("SharedPtr_Alias", FALSE)
    /\ UNCHANGED <<wk, stack>>

\* explicit SharedPtr(const WeakPtr<T>& other)
SharedPtr_FromWeak(s, w) ==
    /\ Idle /\ ~sh[s].live /\ wk[w].live
    /\ LET r == SharedPtr_Promote(blocks, wk[w])
       IN /\ blocks' = r.bl
          /\ sh' = [sh EXCEPT ![s] = r.h]
          /\ last' = Op("SharedPtr_FromWeak", r.thrown)
    /\ UNCHANGED <<wk, stack>>

\* a = b
SharedPtr_Assign(d, o) ==
    /\ Idle /\ sh[d].live /\ sh[o].live
    /\ SharedPtr_OperatorAssign(d,
           IF sh[o].block_ # Null THEN IncrementRefCounter(blocks, sh[o].block_) ELSE blocks,
           sh, sh[o].block_, sh[o].observer_)
    /\ last' = Op("SharedPtr_Assign", FALSE)
    /\ UNCHANGED wk

\* a = std::move(b)
SharedPtr_MoveAssign(d, o) ==
    /\ Idle /\ sh[d].live /\ sh[o].live
    /\ SharedPtr_OperatorAssign(d, blocks, [sh EXCEPT ![o] = EmptyShared],
                                sh[o].block_, sh[o].observer_)
    /\ last' = Op("SharedPtr_MoveAssign", FALSE)
    /\ UNCHANGED wk

\* ~SharedPtr()
SharedPtr_Dtor(s) ==
    /\ Idle /\ sh[s].live
    /\ sh' = [sh EXCEPT ![s] = NoShared]
    /\ LET b == sh[s].block_
           bl1 == IF b # Null THEN DecrementRefCounter(blocks, b) ELSE blocks
       IN /\ blocks' = bl1
          /\ stack' = IF b # Null /\ TeardownStarted(blocks, bl1, b)
                      THEN <<DtorFrame(b)>> \o stack ELSE stack
    /\ last' = Op("SharedPtr_Dtor", FALSE)
    /\ UNCHANGED wk

\* Reset(): *this = SharedPtr<T>(nullptr)
SharedPtr_Reset(d) ==
    /\ Idle /\ sh[d].live
    /\ SharedPtr_OperatorAssign(d, blocks, sh, Null, Null)
    /\ last' = Op("SharedPtr_Reset", FALSE)
    /\ UNCHANGED wk

\* Reset(Y* ptr): *this = SharedPtr<T>(ptr)
SharedPtr_ResetPtr(d, esft) ==
    /\ Idle /\ sh[d].live /\ HasFreeBlock
    /\ SharedPtr_OperatorAssign(d, SharedPtr_FromPtrHeap(blocks, NewBlock, esft), sh,
                                NewBlock, NewBlock)
    /\ last' = Op("SharedPtr_ResetPtr", FALSE)
    /\ UNCHANGED wk

\* Swap(SharedPtr& other)
SharedPtr_Swap(s, o) ==
    /\ Idle /\ sh[s].live /\ sh[o].live
    /\ sh' = [sh EXCEPT ![s] = sh[o], ![o] = sh[s]]
    /\ last' = Op("SharedPtr_Swap", FALSE)
    /\ UNCHANGED <<blocks, wk, stack>>

\* ---------------------------------------------------------------------
\* WeakPtr operations
\* ---------------------------------------------------------------------
\* WeakPtr()
WeakPtr_Default(w) ==
    /\ Idle /\ ~wk[w].live
    /\ wk' = [wk EXCEPT ![w] = EmptyWeak]
    /\ last' = Op("WeakPtr_Default", FALSE)
    /\ UNCHANGED <<blocks, sh, stack>>

\* WeakPtr(const WeakPtr& other)
WeakPtr_Copy(w, o) ==
    /\ Idle /\ ~wk[w].live /\ wk[o].live
    /\ wk' = [wk EXCEPT ![w] = wk[o]]
    /\ blocks' = IF wk[o].block_ # Null THEN IncrementWeakRefCounter(blocks, wk[o].block_) ELSE blocks
    /\ last' = Op("WeakPtr_Copy", FALSE)
    /\ UNCHANGED <<sh, stack>>

\* Mutation: other.block_ is not reset.
WeakPtr_Move_BlockKept(w, o) ==
    /\ Idle /\ ~wk[w].live /\ wk[o].live
    /\ wk' = [wk EXCEPT ![w] = wk[o],
                        ![o] = [EmptyWeak EXCEPT !.block_ = wk[o].block_]]
    /\ last' = Op("WeakPtr_Move", FALSE)
    /\ UNCHANGED <<blocks, sh, stack>>

\* WeakPtr(WeakPtr&& other)
WeakPtr_Move(w, o) ==
    /\ Idle /\ ~wk[w].live /\ wk[o].live
    /\ wk' = [wk EXCEPT ![w] = wk[o],
                        ![o] = EmptyWeak]
    /\ last' = Op("WeakPtr_Move", FALSE)
    /\ UNCHANGED <<blocks, sh, stack>>

\* WeakPtr(const SharedPtr<T>& other)
WeakPtr_FromShared(w, s) ==
    /\ Idle /\ ~wk[w].live /\ sh[s].live
    /\ wk' = [wk EXCEPT ![w] = [live |-> TRUE, block_ |-> sh[s].block_,
                                observer_ |-> sh[s].observer_]]
    /\ blocks' = IF sh[s].block_ # Null THEN IncrementWeakRefCounter(blocks, sh[s].block_) ELSE blocks
    /\ last' = Op("WeakPtr_FromShared", FALSE)
    /\ UNCHANGED <<sh, stack>>

\* a = b
WeakPtr_Assign(d, o) ==
    /\ Idle /\ wk[d].live /\ wk[o].live
    /\ LET ob == wk[o].block_
           bl0 == IF ob # Null THEN IncrementWeakRefCounter(blocks, ob) ELSE blocks
       IN blocks' = WeakPtr_OperatorAssign(bl0, wk[d].block_, ob)
    /\ wk' = [wk EXCEPT ![d].block_ = wk[o].block_, ![d].observer_ = wk[o].observer_]
    /\ last' = Op("WeakPtr_Assign", FALSE)
    /\ UNCHANGED <<sh, stack>>

\* a = std::move(b)
WeakPtr_MoveAssign(d, o) ==
    /\ Idle /\ wk[d].live /\ wk[o].live
    /\ LET wk0 == [wk EXCEPT ![o].block_ = Null, ![o].observer_ = Null]
       IN /\ blocks' = WeakPtr_OperatorAssign(blocks, wk0[d].block_, wk[o].block_)
          /\ wk' = [wk0 EXCEPT ![d].block_ = wk[o].block_, ![d].observer_ = wk[o].observer_]
    /\ last' = Op("WeakPtr_MoveAssign", FALSE)
    /\ UNCHANGED <<sh, stack>>

\* ~WeakPtr()
WeakPtr_Dtor(w) ==
    /\ Idle /\ wk[w].live
    /\ wk' = [wk EXCEPT ![w] = NoWeak]
    /\ blocks' = IF wk[w].block_ # Null THEN DecrementWeakRefCounter(blocks, wk[w].block_) ELSE blocks
    /\ last' = Op("WeakPtr_Dtor", FALSE)
    /\ UNCHANGED <<sh, stack>>

\* Reset(): *this = WeakPtr<T>()
WeakPtr_Reset(w) ==
    /\ Idle /\ wk[w].live
    /\ blocks' = WeakPtr_OperatorAssign(blocks, wk[w].block_, Null)
    /\ wk' = [wk EXCEPT ![w].block_ = Null, ![w].observer_ = Null]
    /\ last' = Op("WeakPtr_Reset", FALSE)
    /\ UNCHANGED <<sh, stack>>

\* Swap(WeakPtr& other)
WeakPtr_Swap(w, o) ==
    /\ Idle /\ wk[w].live /\ wk[o].live
    /\ wk' = [wk EXCEPT ![w].block_ = wk[o].block_, ![w].observer_ = wk[o].observer_,
                        ![o].block_ = wk[w].block_, ![o].observer_ = wk[w].observer_]
    /\ last' = Op("WeakPtr_Swap", FALSE)
    /\ UNCHANGED <<blocks, sh, stack>>

\* Lock(), the result constructed into s
WeakPtr_Lock(w, s) ==
    /\ Idle /\ wk[w].live /\ ~sh[s].live
    /\ LET r == WeakPtr_LockResult(blocks, wk[w])
       IN /\ blocks' = r.bl
          /\ sh' = [sh EXCEPT ![s] = r.h]
          /\ last' = Op("WeakPtr_Lock", r.thrown)
    /\ UNCHANGED <<wk, stack>>

\* ---------------------------------------------------------------------
\* EnableSharedFromThis, called on the payload that handle s points at
\* (s->SharedFromThis()); pointer p is the payload of block p.
\* ---------------------------------------------------------------------
\* s points at a payload that has the EnableSharedFromThis base and is alive.
PointsAtESFT(s) ==
    /\ sh[s].live /\ sh[s].observer_ \in BlockIds
    /\ blocks[sh[s].observer_].esft /\ blocks[sh[s].observer_].payload = "alive"

\* SharedFromThis(): SharedPtr(weak_this_), the result constructed into r
SharedFromThis(s, r) ==
    /\ Idle /\ PointsAtESFT(s) /\ ~sh[r].live
    /\ LET res == SharedPtr_Promote(blocks, blocks[sh[s].observer_].weak_this_)
       IN /\ blocks' = res.bl
          /\ sh' = [sh EXCEPT ![r] = res.h]
          /\ last' = Op("SharedFromThis", res.thrown)
    /\ UNCHANGED <<wk, stack>>

\* WeakFromThis(): a copy of weak_this_, constructed into w
WeakFromThis(s, w) ==
    /\ Idle /\ PointsAtESFT(s) /\ ~wk[w].live
    /\ LET wt == blocks[sh[s].observer_].weak_this_
       IN /\ wk' = [wk EXCEPT ![w] = [live |-> TRUE, block_ |-> wt.block_,
                                      observer_ |-> wt.observer_]]
          /\ blocks' = IF wt.block_ # Null THEN IncrementWeakRefCounter(blocks, wt.block_)
                       ELSE blocks
    /\ last' = Op("WeakFromThis", FALSE)
    /\ UNCHANGED <<sh, stack>>

\* ---------------------------------------------------------------------
\* The payload destructor started by DecrementRefCounter (delete ptr_ / ~Y()):
\* the members of the payload are destroyed, then its EnableSharedFromThis
\* base with weak_this_, then DecrementRefCounter goes on.
\* ---------------------------------------------------------------------
InTeardown == stack # <<>> /\ ~UB

\* ~WeakPtr() of a WeakPtr that the payload owns; which WeakPtr objects a
\* payload owns is not recorded: any of them may be one.  The
\* EnableSharedFromThis base, with weak_this_, is destroyed after them.
Teardown_Member(w) ==
    /\ InTeardown /\ wk[w].live /\ blocks[Head(stack).blk].weak_this_.live = blocks[Head(stack).blk].esft
    /\ wk' = [wk EXCEPT ![w] = NoWeak]
    /\ blocks' = IF wk[w].block_ # Null THEN DecrementWeakRefCounter(blocks, wk[w].block_) ELSE blocks
    /\ last' = Op("Teardown_Member", FALSE)
    /\ UNCHANGED <<sh, stack>>

\* ~WeakPtr() of weak_this_
Teardown_WeakThis ==
    /\ InTeardown
    /\ LET b == Head(stack).blk
           wt == blocks[b].weak_this_
           bl1 == [blocks EXCEPT ![b].weak_this_ = NoWeakThis]
       IN /\ wt.live
          /\ blocks' = IF wt.block_ # Null THEN DecrementWeakRefCounter(bl1, wt.block_) ELSE bl1
    /\ last' = Op("Teardown_WeakThis", FALSE)
    /\ UNCHANGED <<sh, wk, stack>>

\* the payload destructor returns into DecrementRefCounter, which returns
\* into the handle operation that called it
Teardown_Return ==
    /\ InTeardown
    /\ LET f == Head(stack)
           bl1 == DecrementRefCounterReturn(blocks, f.blk)
       IN /\ ~blocks[f.blk].weak_this_.live
          /\ IF f.op = "assign"
             THEN SharedPtr_AssignRest(f.dst, bl1, sh, f.oblock, f.oobs, Tail(stack))
             ELSE /\ blocks' = bl1
                  /\ stack' = Tail(stack)
                  /\ UNCHANGED sh
    /\ last' = Op("Teardown_Return", FALSE)
    /\ UNCHANGED wk

Next ==
    \/ \E s \in SharedIds : SharedPtr_Default(s) /\ UNCHANGED <<ivars, uvars>>
    \/ \E s \in SharedIds, e \in BOOLEAN : SharedPtr_FromPtr(s, e) /\ UNCHANGED <<ivars, uvars>>
    \/ \E s \in SharedIds, e \in BOOLEAN : MakeShared(s, e) /\ UNCHANGED <<ivars, uvars>>
    \/ \E s, o \in SharedIds : SharedPtr_Copy(s, o) /\ UNCHANGED <<ivars, uvars>>
    \/ \E s, o \in SharedIds : SharedPtr_Move(s, o) /\ UNCHANGED <<ivars, uvars>>
    \/ \E s, o \in SharedIds, p \in Ptrs : SharedPtr_Alias(s, o, p) /\ UNCHANGED <<ivars, uvars>>
    \/ \E s \in SharedIds, w \in WeakIds : SharedPtr_FromWeak(s, w) /\ UNCHANGED <<ivars, uvars>>
    \/ \E d, o \in SharedIds : SharedPtr_Assign(d, o) /\ UNCHANGED <<ivars, uvars>>
    \/ \E d, o \in SharedIds : SharedPtr_MoveAssign(d, o) /\ UNCHANGED <<ivars, uvars>>
    \/ \E s \in SharedIds : SharedPtr_Dtor(s) /\ UNCHANGED <<ivars, uvars>>
    \/ \E s \in SharedIds : SharedPtr_Reset(s) /\ UNCHANGED <<ivars, uvars>>
    \/ \E s \in SharedIds, e \in BOOLEAN : SharedPtr_ResetPtr(s, e) /\ UNCHANGED <<ivars, uvars>>
    \/ \E s, o \in SharedIds : SharedPtr_Swap(s, o) /\ UNCHANGED <<ivars, uvars>>
    \/ \E w \in WeakIds : WeakPtr_Default(w) /\ UNCHANGED <<ivars, uvars>>
    \/ \E w, o \in WeakIds : WeakPtr_Copy(w, o) /\ UNCHANGED <<ivars, uvars>>
    \/ \E w, o \in WeakIds : WeakPtr_Move(w, o) /\ UNCHANGED <<ivars, uvars>>
    \/ \E w \in WeakIds, s \in SharedIds : WeakPtr_FromShared(w, s) /\ UNCHANGED <<ivars, uvars>>
    \/ \E d, o \in WeakIds : WeakPtr_Assign(d, o) /\ UNCHANGED <<ivars, uvars>>
    \/ \E d, o \in WeakIds : WeakPtr_MoveAssign(d, o) /\ UNCHANGED <<ivars, uvars>>
    \/ \E w \in WeakIds : WeakPtr_Dtor(w) /\ UNCHANGED <<ivars, uvars>>
    \/ \E w \in WeakIds : WeakPtr_Reset(w) /\ UNCHANGED <<ivars, uvars>>
    \/ \E w, o \in WeakIds : WeakPtr_Swap(w, o) /\ UNCHANGED <<ivars, uvars>>
    \/ \E w \in WeakIds, s \in SharedIds : WeakPtr_Lock(w, s) /\ UNCHANGED <<ivars, uvars>>
    \/ \E s, r \in SharedIds : SharedFromThis(s, r) /\ UNCHANGED <<ivars, uvars>>
    \/ \E s \in SharedIds, w \in WeakIds : WeakFromThis(s, w) /\ UNCHANGED <<ivars, uvars>>
    \/ \E w \in WeakIds : Teardown_Member(w) /\ UNCHANGED <<ivars, uvars>>
    \/ Teardown_WeakThis /\ UNCHANGED <<ivars, uvars>>
    \/ Teardown_Return /\ UNCHANGED <<ivars, uvars>>

Spec == Init /\ [][Next]_vars


\* ---------------------------------------------------------------------
\* Who references a block
\* ---------------------------------------------------------------------
Allocated(b) == blocks[b].kind # "none"
Frames == {stack[i] : i \in 1..Len(stack)}
SharedOn(b) == {s \in SharedIds : sh[s].live /\ sh[s].block_ = b}
WeakOn(b) == {w \in WeakIds : wk[w].live /\ wk[w].block_ = b}
WeakThisOn(b) == {c \in BlockIds : blocks[c].weak_this_.live /\ blocks[c].weak_this_.block_ = b}
\* The handle whose operator= called DecrementRefCounter on b and has not
\* yet replaced its block_: it has released b already.
Releasing(b) == {f.dst : f \in {g \in Frames : g.op = "assign" /\ g.blk = b}}
\* By-value parameters `other` of running operator= calls that hold b.
TempsOn(b) == {i \in 1..Len(stack) : stack[i].op = "assign" /\ stack[i].oblock = b}
Owning(b) == Cardinality(SharedOn(b) \ Releasing(b)) + Cardinality(TempsOn(b))
Quiescent == stack = <<>>

\* C1: the payload of a block is destroyed exactly once, in the operation
\* that releases the last SharedPtr of the block: at every moment the payload
\* destructor has run (once) exactly when no SharedPtr owns the block any more,
\* never before and never later.
C1_PayloadDestroyedOnce ==
    /\ ~UB
    /\ \A b \in BlockIds : Allocated(b) =>
          /\ blocks[b].dtors <= 1
          /\ blocks[b].dtors = 1 <=> Owning(b) = 0
          /\ blocks[b].dtors = 1 <=> blocks[b].payload \in {"destroying", "destroyed"}

\* A payload was destroyed by the release of the last of several handles,
\* while a WeakPtr still keeps the block.
C1_Witness ==
    \E b \in BlockIds : /\ Quiescent /\ blocks[b].dtors = 1 /\ blocks[b].deleted = 0
                        /\ WeakOn(b) # {} /\ SharedOn(b) = {}
                        /\ \E s \in SharedIds : sh[s].live

\* C2: a control block is deleted exactly once, only after its payload has
\* been destroyed, and only when no SharedPtr, WeakPtr, weak_this_ or running
\* operation references it; once nothing references it, it is deleted.
C2_BlockDeletedOnce ==
    /\ ~UB
    /\ \A b \in BlockIds : Allocated(b) =>
          /\ blocks[b].deleted <= 1
          /\ blocks[b].deleted = 1 =>
                /\ blocks[b].payload = "destroyed" /\ blocks[b].dtors = 1
                /\ SharedOn(b) = {} /\ WeakOn(b) = {} /\ WeakThisOn(b) = {}
                /\ \A f \in Frames : f.blk # b /\ f.oblock # b
          /\ (Quiescent /\ SharedOn(b) = {} /\ WeakOn(b) = {}) => blocks[b].deleted = 1

\* A block deleted by the destruction of the last WeakPtr, after the payload.
C2_Witness ==
    \E b \in BlockIds : /\ blocks[b].deleted = 1 /\ blocks[b].dtors = 1
                        /\ \E c \in BlockIds : c # b /\ Allocated(c) /\ blocks[c].deleted = 0

\* C3: while a payload destructor runs, the block it belongs to keeps
\* weak_ref_counter_ >= 1 and is not deleted, whatever WeakPtr (weak_this_
\* included) the destructor destroys; no deleted block is ever accessed, and
\* after the destructor has returned the block is deleted (once) when nothing
\* references it.
C3_GuardedTeardown ==
    /\ ~UB
    /\ \A f \in Frames :
          /\ blocks[f.blk].payload = "destroying"
          /\ blocks[f.blk].deleted = 0
          /\ blocks[f.blk].weak_ref_counter_ >= 1
    /\ \A b \in BlockIds :
          (Quiescent /\ blocks[b].esft /\ blocks[b].payload = "destroyed") =>
              WeakOn(b) # {}

\* The destructor of an EnableSharedFromThis payload has destroyed weak_this_
\* and every other WeakPtr: only the extra count of DecrementRefCounter is left.
C3_Witness ==
    \E f \in Frames : /\ blocks[f.blk].esft /\ ~blocks[f.blk].weak_this_.live
                      /\ WeakOn(f.blk) = {}
                      /\ blocks[f.blk].weak_ref_counter_ = 1

\* The counters of block b went up by one strong reference from bl0 to bl1
\* and nothing else changed in the heap.
OneMoreStrong(bl0, bl1, b) ==
    bl1 = [bl0 EXCEPT ![b].ref_counter_ = @ + 1, ![b].weak_ref_counter_ = @ + 1]

\* C4: a WeakPtr whose block has lost its payload (strong count reached
\* zero) is Expired(), Lock() on it returns an empty SharedPtr and changes no
\* counter, and destroying it lowers weak_ref_counter_ by one, leaves the
\* strong count alone and deletes the block exactly when it was the last
\* reference.
C4_ExpiredWeak ==
    [][\A w \in WeakIds :
          (wk[w].live /\ wk[w].block_ # Null /\ blocks[wk[w].block_].dtors > 0) =>
             LET b == wk[w].block_ IN
             /\ WeakPtr_Expired(blocks, wk[w])
             /\ \A s \in SharedIds : WeakPtr_Lock(w, s) =>
                   sh'[s] = EmptyShared /\ blocks' = blocks /\ ~last'.thrown
             /\ WeakPtr_Dtor(w) =>
                   /\ \A c \in BlockIds \ {b} : blocks'[c] = blocks[c]
                   /\ blocks'[b].deleted = 1 <=> blocks[b].weak_ref_counter_ = 1
                   /\ blocks'[b].deleted = 0 =>
                         blocks'[b] = [blocks[b] EXCEPT !.weak_ref_counter_ = @ - 1]
                   /\ blocks'[b].dtors = blocks[b].dtors]_vars

\* Lock() has just been called on a WeakPtr whose payload is gone.
C4_Witness ==
    /\ last.op = "WeakPtr_Lock"
    /\ \E w \in WeakIds : wk[w].live
    /\ \A w \in WeakIds : wk[w].live =>
          wk[w].block_ # Null /\ blocks[wk[w].block_].dtors = 1
    /\ \E s \in SharedIds : sh[s] = EmptyShared

\* C5: SharedPtr(const WeakPtr&) throws BadWeakPtr exactly when the WeakPtr
\* is empty or its block has strong count zero; when it throws, nothing
\* changes; otherwise the block gains one strong reference and the new handle
\* has the WeakPtr's block and pointer.  Nothing else throws.
C5_PromoteThrows ==
    [][/\ \A s \in SharedIds, w \in WeakIds : SharedPtr_FromWeak(s, w) =>
             LET b == wk[w].block_
                 expired == b = Null \/ blocks[b].ref_counter_ = 0
             IN /\ last'.thrown <=> expired
                /\ expired => blocks' = blocks /\ sh' = sh /\ wk' = wk
                /\ ~expired =>
                      /\ OneMoreStrong(blocks, blocks', b)
                      /\ sh' = [sh EXCEPT ![s] = [live |-> TRUE, block_ |-> b,
                                                 observer_ |-> wk[w].observer_]]
                      /\ wk' = wk
       /\ last'.thrown => \E s \in SharedIds, w \in WeakIds : SharedPtr_FromWeak(s, w)]_vars

\* The promotion of a WeakPtr whose block is alive but has lost its payload
\* has just thrown.
C5_Witness ==
    /\ last.op = "SharedPtr_FromWeak" /\ last.thrown
    /\ \E w \in WeakIds : wk[w].live
    /\ \A w \in WeakIds : wk[w].live =>
          wk[w].block_ # Null /\ blocks[wk[w].block_].deleted = 0

\* C6: Lock() never throws: on an empty or expired WeakPtr it returns an
\* empty SharedPtr and changes no counter, otherwise it returns a handle with
\* the WeakPtr's block and pointer and the block gains one strong reference.
C6_LockNeverThrows ==
    [][\A w \in WeakIds, s \in SharedIds : WeakPtr_Lock(w, s) =>
          LET b == wk[w].block_
              expired == b = Null \/ blocks[b].ref_counter_ = 0
          IN /\ ~last'.thrown
             /\ wk' = wk
             /\ expired => blocks' = blocks /\ sh' = [sh EXCEPT ![s] = EmptyShared]
             /\ ~expired =>
                   /\ OneMoreStrong(blocks, blocks', b)
                   /\ sh' = [sh EXCEPT ![s] = [live |-> TRUE, block_ |-> b,
                                              observer_ |-> wk[w].observer_]]]_vars

\* Lock() has just been called on an empty WeakPtr while a payload is alive.
C6_Witness ==
    /\ last.op = "WeakPtr_Lock" /\ ~last.thrown
    /\ \E w \in WeakIds : wk[w].live
    /\ \A w \in WeakIds : wk[w].live => wk[w].block_ = Null
    /\ \E b \in BlockIds : blocks[b].payload = "alive"

\* C7: whenever no payload destructor is running, every block that exists
\* has ref_counter_ = number of live SharedPtr on it and weak_ref_counter_ =
\* that number plus the number of live WeakPtr (weak_this_ included) on it.
C7_CountersMatchHandles ==
    /\ ~UB
    /\ Quiescent => \A b \in BlockIds : (Allocated(b) /\ blocks[b].deleted = 0) =>
          /\ blocks[b].ref_counter_ = Cardinality(SharedOn(b))
          /\ blocks[b].weak_ref_counter_ =
                Cardinality(SharedOn(b)) + Cardinality(WeakOn(b)) + Cardinality(WeakThisOn(b))
          /\ blocks[b].weak_ref_counter_ >= blocks[b].ref_counter_

\* Two SharedPtr, two WeakPtr and weak_this_ on one block.
C7_Witness ==
    \E b \in BlockIds : /\ Quiescent /\ blocks[b].esft
                        /\ blocks[b].ref_counter_ = 2
                        /\ blocks[b].weak_ref_counter_ = 5

\* A SharedPtr that can only come from the aliasing constructor (or from a
\* copy of its result): it caches a pointer that is not the payload of its block.
Aliasing(s) == sh[s].live /\ sh[s].block_ # Null /\ sh[s].observer_ # sh[s].block_

\* C8: as long as an aliasing SharedPtr is alive (and is not itself giving
\* up its block), its block has a non-zero strong count, of which the handle
\* is one, and the payload is not destroyed, whatever happened to the other
\* handles; the payload is destroyed once no SharedPtr is left.
C8_AliasKeepsAlive ==
    /\ \A s \in SharedIds : (Aliasing(s) /\ s \notin Releasing(sh[s].block_)) =>
          LET b == sh[s].block_ IN
          /\ blocks[b].ref_counter_ >= 1
          /\ blocks[b].payload = "alive" /\ blocks[b].dtors = 0 /\ blocks[b].deleted = 0
          /\ Quiescent => blocks[b].ref_counter_ = Cardinality(SharedOn(b))
    /\ \A b \in BlockIds : (Quiescent /\ Allocated(b) /\ SharedOn(b) = {}) => blocks[b].dtors = 1

\* The aliasing handle is the only SharedPtr left on its block.
C8_Witness ==
    \E s \in SharedIds : /\ Quiescent /\ Aliasing(s)
                         /\ SharedOn(sh[s].block_) = {s}
                         /\ blocks[sh[s].block_].ref_counter_ = 1
                         /\ blocks[sh[s].block_].payload = "alive"

\* s is a non-empty SharedPtr with non-zero use count and w is what
\* WeakPtr(s) constructs: a WeakPtr with the block and the pointer of s.
WeakOf(w, s) ==
    /\ sh[s].live /\ sh[s].block_ # Null /\ SharedPtr_UseCount(blocks, sh[s]) # 0
    /\ wk[w].live /\ wk[w].block_ = sh[s].block_ /\ wk[w].observer_ = sh[s].observer_

\* C9 as stated: WeakPtr(s).Lock() compares equal to s, has the block of s,
\* and leaves s.UseCount() as it was.
C9_RoundTripUseCountUnchanged ==
    [][\A w \in WeakIds, r, s \in SharedIds : (WeakOf(w, s) /\ WeakPtr_Lock(w, r)) =>
          /\ SharedPtr_Equal(sh'[r], sh'[s])
          /\ sh'[r].block_ = sh'[s].block_
          /\ SharedPtr_UseCount(blocks', sh'[s]) = SharedPtr_UseCount(blocks, sh[s])]_vars

\* C9, amended: WeakPtr(s).Lock() compares equal to s, has the block of s,
\* and s.UseCount() is one higher than before: the returned handle is one
\* more owner.
C9_RoundTrip ==
    [][\A w \in WeakIds, r, s \in SharedIds : (WeakOf(w, s) /\ WeakPtr_Lock(w, r)) =>
          /\ sh'[r].live /\ ~last'.thrown
          /\ SharedPtr_Equal(sh'[r], sh'[s])
          /\ sh'[r].block_ = sh'[s].block_
          /\ sh'[s] = sh[s]
          /\ SharedPtr_UseCount(blocks', sh'[s]) = SharedPtr_UseCount(blocks, sh[s]) + 1]_vars

\* Lock() has just returned a second handle equal to the one the WeakPtr was made from.
C9_Witness ==
    /\ last.op = "WeakPtr_Lock"
    /\ \E w \in WeakIds, r, s \in SharedIds :
          /\ r # s /\ WeakOf(w, s) /\ sh[r] = sh[s]
          /\ blocks[sh[s].block_].ref_counter_ = 2

\* Handles with a null block and a non-null cached pointer, and the
\* pointers they cache; the by-value parameter of a running operator= is a
\* handle too.
NullBlockWithPtr(h) == h.live /\ h.block_ = Null /\ h.observer_ # Null
DanglingPtrs ==
    {sh[s].observer_ : s \in {x \in SharedIds : NullBlockWithPtr(sh[x])}}
    \cup {wk[w].observer_ : w \in {x \in WeakIds : NullBlockWithPtr(wk[x])}}
    \cup {f.oobs : f \in {g \in Frames : g.op = "assign" /\ g.oblock = Null /\ g.oobs # Null}}

\* C10 as stated: every SharedPtr and WeakPtr with a null block has a null
\* cached pointer.
C10_NullBlockNullPtr ==
    /\ \A s \in SharedIds : sh[s].live /\ sh[s].block_ = Null => sh[s].observer_ = Null
    /\ \A w \in WeakIds : wk[w].live /\ wk[w].block_ = Null => wk[w].observer_ = Null

\* C10, amended: a handle with a null block and a non-null cached pointer
\* comes only from the aliasing constructor applied to an empty SharedPtr, or
\* is a copy of such a handle (copy, move, assignment, Swap, WeakPtr from
\* SharedPtr, promotion); every other operation leaves a null pointer with a
\* null block.
C10_NullBlockNullPtrButAlias ==
    [][\A p \in DanglingPtrs' :
          \/ p \in DanglingPtrs
          \/ \E s, o \in SharedIds : SharedPtr_Alias(s, o, p) /\ sh[o].block_ = Null]_vars

\* An aliasing handle made from an empty SharedPtr next to handles emptied
\* by a move or a Reset of a block that is in use.
C10_Witness ==
    /\ \E s \in SharedIds : NullBlockWithPtr(sh[s])
    /\ \E s \in SharedIds : sh[s] = EmptyShared
    /\ \E w \in WeakIds : wk[w].live /\ wk[w].block_ # Null

\* A step of one of the WeakPtr operations (UseCount and Expired are the
\* operators WeakPtr_UseCount and WeakPtr_Expired, which have no step).
WeakPtr_Operation ==
    \/ \E w \in WeakIds : WeakPtr_Default(w)
    \/ \E w, o \in WeakIds : WeakPtr_Copy(w, o)
    \/ \E w, o \in WeakIds : WeakPtr_Move(w, o)
    \/ \E w \in WeakIds, s \in SharedIds : WeakPtr_FromShared(w, s)
    \/ \E d, o \in WeakIds : WeakPtr_Assign(d, o)
    \/ \E d, o \in WeakIds : WeakPtr_MoveAssign(d, o)
    \/ \E w \in WeakIds : WeakPtr_Dtor(w)
    \/ \E w \in WeakIds : WeakPtr_Reset(w)
    \/ \E w, o \in WeakIds : WeakPtr_Swap(w, o)
    \/ \E w \in WeakIds : Teardown_Member(w)

\* C11: no WeakPtr operation changes the strong count of a block, starts a
\* payload destructor or touches a SharedPtr; of a block it changes only
\* weak_ref_counter_, or it deletes the block, and it deletes only a block
\* whose payload is already destroyed and whose last weak reference it drops.
C11_WeakOpsKeepStrong ==
    [][WeakPtr_Operation =>
          /\ sh' = sh /\ stack' = stack /\ ~last'.thrown
          /\ \A b \in BlockIds :
                /\ blocks'[b].ref_counter_ = blocks[b].ref_counter_
                /\ blocks'[b].dtors = blocks[b].dtors
                /\ blocks'[b].payload = blocks[b].payload
                /\ ~blocks'[b].ub
                /\ blocks'[b].deleted = blocks[b].deleted =>
                      blocks'[b] = [blocks[b] EXCEPT
                                       !.weak_ref_counter_ = blocks'[b].weak_ref_counter_]
                /\ blocks'[b].deleted # blocks[b].deleted =>
                      /\ blocks[b].weak_ref_counter_ = 1 /\ blocks[b].ref_counter_ = 0
                      /\ blocks[b].payload = "destroyed" /\ blocks'[b].deleted = 1]_vars

\* ~WeakPtr() has just run and a block is deleted while a SharedPtr still
\* owns another block.
C11_Witness ==
    /\ last.op = "WeakPtr_Dtor"
    /\ \E b \in BlockIds : blocks[b].deleted = 1
    /\ \E s \in SharedIds : sh[s].live /\ sh[s].block_ # Null
                             /\ blocks[sh[s].block_].ref_counter_ = 1

\* ---------------------------------------------------------------------
\* One construction and its copies: a block is made once, by MakeShared or
\* from a raw pointer, and its handle is copied and the copies destroyed;
\* NumCopies SharedPtr objects can exist at once, each made in the first
\* place that is free.
\* ---------------------------------------------------------------------
CopyIds == 1..NumCopies
FirstFree(s) == ~sh[s].live /\ \A t \in CopyIds : t < s => sh[t].live
NothingConstructed == \A b \in BlockIds : blocks[b].kind = "none"

InitCopies ==
    /\ blocks = [b \in BlockIds |-> NoBlock]
    /\ sh = [s \in CopyIds |-> NoShared]
    /\ wk = [w \in WeakIds |-> NoWeak]
    /\ stack = <<>>
    /\ last = [op |-> "-", thrown |-> FALSE]
    /\ InitIntrusive /\ InitUnique

NextCopies ==
    \/ \E s \in CopyIds : FirstFree(s) /\ SharedPtr_Default(s) /\ UNCHANGED <<ivars, uvars>>
    \/ \E s \in CopyIds, e \in BOOLEAN :
          FirstFree(s) /\ NothingConstructed /\ SharedPtr_FromPtr(s, e) /\ UNCHANGED <<ivars, uvars>>
    \/ \E s \in CopyIds, e \in BOOLEAN :
          FirstFree(s) /\ NothingConstructed /\ MakeShared(s, e) /\ UNCHANGED <<ivars, uvars>>
    \/ \E s, o \in CopyIds : FirstFree(s) /\ SharedPtr_Copy(s, o) /\ UNCHANGED <<ivars, uvars>>
    \/ \E s \in CopyIds : SharedPtr_Dtor(s) /\ UNCHANGED <<ivars, uvars>>
    \/ \E w \in WeakIds, s \in CopyIds : WeakPtr_FromShared(w, s) /\ UNCHANGED <<ivars, uvars>>
    \/ \E w \in WeakIds : WeakPtr_Dtor(w) /\ UNCHANGED <<ivars, uvars>>
    \/ \E w \in WeakIds : Teardown_Member(w) /\ UNCHANGED <<ivars, uvars>>
    \/ Teardown_WeakThis /\ UNCHANGED <<ivars, uvars>>
    \/ Teardown_Return /\ UNCHANGED <<ivars, uvars>>

SpecCopies == InitCopies /\ [][NextCopies]_vars

\* The SharedPtr objects that are alive and hold block b.
LiveSharedOn(b) == {s \in DOMAIN sh : sh[s].live /\ sh[s].block_ = b}

\* C12: after any copies and destructions of the handles of one
\* construction, UseCount() of every non-empty SharedPtr and of every WeakPtr
\* on the block is the number of SharedPtr alive on the block, UseCount() of
\* an empty handle is 0, and the payload is destroyed exactly once, when the
\* last of the handles is destroyed.
C12_UseCountIsLiveHandles ==
    /\ ~UB
    /\ \A s \in DOMAIN sh : sh[s].live =>
          SharedPtr_UseCount(blocks, sh[s]) =
             IF sh[s].block_ = Null THEN 0 ELSE Cardinality(LiveSharedOn(sh[s].block_))
    /\ \A w \in WeakIds : (wk[w].live /\ wk[w].block_ # Null) =>
          WeakPtr_UseCount(blocks, wk[w]) = Cardinality(LiveSharedOn(wk[w].block_))
    /\ \A b \in BlockIds : blocks[b].kind # "none" =>
          /\ blocks[b].dtors <= 1
          /\ blocks[b].dtors = 1 <=> LiveSharedOn(b) = {}

\* Four handles were made (the construction and three copies), the first
\* two are destroyed, and UseCount() of the other two and of a WeakPtr is 2.
C12_Witness ==
    /\ DOMAIN sh = CopyIds
    /\ ~sh[1].live /\ ~sh[2].live
    /\ \E b \in BlockIds :
          /\ LiveSharedOn(b) = {3, 4}
          /\ SharedPtr_UseCount(blocks, sh[3]) = 2 /\ SharedPtr_UseCount(blocks, sh[4]) = 2
          /\ \E w \in WeakIds : wk[w].live /\ wk[w].block_ = b
                                 /\ WeakPtr_UseCount(blocks, wk[w]) = 2

\* C13: the move constructors of SharedPtr and WeakPtr give the new handle
\* the block and pointer of the source, leave the source with a null block
\* and a null pointer and change no block; the destructor of an empty
\* handle, such as the moved-from source, changes no block either.
C13_MoveTransfers ==
    [][/\ \A s, o \in SharedIds : SharedPtr_Move(s, o) =>
             /\ sh'[s].live /\ sh'[s].block_ = sh[o].block_ /\ sh'[s].observer_ = sh[o].observer_
             /\ sh'[o].live /\ sh'[o].block_ = Null /\ sh'[o].observer_ = Null
             /\ \A x \in SharedIds \ {s, o} : sh'[x] = sh[x]
             /\ blocks' = blocks /\ wk' = wk /\ stack' = stack
       /\ \A w, o \in WeakIds : WeakPtr_Move(w, o) =>
             /\ wk'[w].live /\ wk'[w].block_ = wk[o].block_ /\ wk'[w].observer_ = wk[o].observer_
             /\ wk'[o].live /\ wk'[o].block_ = Null /\ wk'[o].observer_ = Null
             /\ \A x \in WeakIds \ {w, o} : wk'[x] = wk[x]
             /\ blocks' = blocks /\ sh' = sh /\ stack' = stack
       /\ \A s \in SharedIds : (sh[s].block_ = Null /\ SharedPtr_Dtor(s)) =>
             blocks' = blocks /\ stack' = stack
       /\ \A w \in WeakIds : (wk[w].block_ = Null /\ WeakPtr_Dtor(w)) =>
             blocks' = blocks /\ stack' = stack]_vars

\* A SharedPtr that was the only handle of an EnableSharedFromThis payload
\* has just been moved from: the counters are 1 and 2 as before.
C13_Witness ==
    /\ last.op = "SharedPtr_Move"
    /\ \E s, o \in SharedIds :
          /\ sh[o] = EmptyShared
          /\ sh[s].live /\ sh[s].block_ # Null
          /\ blocks[sh[s].block_].esft
          /\ blocks[sh[s].block_].ref_counter_ = 1
          /\ blocks[sh[s].block_].weak_ref_counter_ = 2

\* ---------------------------------------------------------------------
\* Payloads that own SharedPtr members: the payload destructor destroys
\* them before the EnableSharedFromThis base, and each may start the
\* destructor of another payload.  Which SharedPtr objects a payload owns is
\* not recorded: any of them may be one, except the object whose operator=
\* is running.
\* ---------------------------------------------------------------------
AssignedTo == {f.dst : f \in {g \in Frames : g.op = "assign"}}

\* ~SharedPtr() of a SharedPtr that the payload owns
Teardown_SharedMember(s) ==
    /\ InTeardown /\ sh[s].live /\ s \notin AssignedTo
    /\ blocks[Head(stack).blk].weak_this_.live = blocks[Head(stack).blk].esft
    /\ sh' = [sh EXCEPT ![s] = NoShared]
    /\ LET b == sh[s].block_
           bl1 == IF b # Null THEN DecrementRefCounter(blocks, b) ELSE blocks
       IN /\ blocks' = bl1
          /\ stack' = IF b # Null /\ TeardownStarted(blocks, bl1, b)
                      THEN <<DtorFrame(b)>> \o stack ELSE stack
    /\ last' = Op("Teardown_SharedMember", FALSE)
    /\ UNCHANGED wk

NextOwned ==
    \/ Next
    \/ \E s \in SharedIds : Teardown_SharedMember(s) /\ UNCHANGED <<ivars, uvars>>

SpecOwned == Init /\ [][NextOwned]_vars

\* C14: once every SharedPtr and every WeakPtr has been destroyed and no
\* operation is running, every block that was created has had its payload
\* destroyed (once) and has been deleted (once), blocks of
\* EnableSharedFromThis payloads included; nothing was used after its end.
C14_NoLeak ==
    /\ ~UB
    /\ (/\ Quiescent
        /\ \A s \in SharedIds : ~sh[s].live
        /\ \A w \in WeakIds : ~wk[w].live)
       => \A b \in BlockIds : Allocated(b) =>
             /\ blocks[b].payload = "destroyed" /\ blocks[b].dtors = 1
             /\ blocks[b].deleted = 1
             /\ blocks[b].ref_counter_ = 0 /\ blocks[b].weak_ref_counter_ = 0
             /\ ~blocks[b].weak_this_.live

\* Every handle is destroyed and every block that can be created was
\* created: all payloads are destroyed and all blocks deleted.
C14_Witness ==
    /\ Quiescent
    /\ \A s \in SharedIds : ~sh[s].live
    /\ \A w \in WeakIds : ~wk[w].live
    /\ \A b \in BlockIds : blocks[b].deleted = 1 /\ blocks[b].dtors = 1

\* ---------------------------------------------------------------------
\* Payload destructors that call back into the handles of the program: a
\* payload that knows where a SharedPtr lives (a pointer or reference to it,
\* a global) calls Reset() on it from its destructor.
\* ---------------------------------------------------------------------
\* d.Reset() called from the payload destructor that is running
Teardown_Reset(d) ==
    /\ InTeardown /\ sh[d].live
    /\ SharedPtr_OperatorAssign(d, blocks, sh, Null, Null)
    /\ last' = Op("Teardown_Reset", FALSE)
    /\ UNCHANGED wk

NextReentrant ==
    \/ Next
    \/ \E d \in SharedIds : Teardown_Reset(d) /\ UNCHANGED <<ivars, uvars>>

SpecReentrant == Init /\ [][NextReentrant]_vars

\* C15 as stated: while the payload destructor started by an assignment or
\* a Reset of a SharedPtr is running, that SharedPtr no longer references the
\* block it has released, so a Reset() of the same SharedPtr called from the
\* destructor finds a handle that is not on the old block and does not
\* decrement the old block a second time.
C15_CopyAndSwap ==
    [][\A d \in SharedIds :
          (InTeardown /\ Head(stack).op = "assign" /\ Head(stack).dst = d
              /\ Teardown_Reset(d)) =>
             /\ sh[d].block_ # Head(stack).blk
             /\ blocks'[Head(stack).blk] = blocks[Head(stack).blk]]_vars

\* C16: operator== on two SharedPtr is identity of their cached pointers,
\* whatever their blocks: handles of one block that cache different pointers
\* are unequal, handles that cache the same pointer are equal also when their
\* blocks differ, and two empty handles are equal.
C16_EqualityIsPointerIdentity ==
    \A s, t \in SharedIds : (sh[s].live /\ sh[t].live) =>
       /\ SharedPtr_Equal(sh[s], sh[t]) <=> sh[s].observer_ = sh[t].observer_
       /\ (sh[s].block_ = sh[t].block_ /\ sh[s].observer_ # sh[t].observer_) =>
             ~SharedPtr_Equal(sh[s], sh[t])
       /\ (sh[s].block_ # sh[t].block_ /\ sh[s].observer_ = sh[t].observer_) =>
             SharedPtr_Equal(sh[s], sh[t])
       /\ (sh[s] = EmptyShared /\ sh[t] = EmptyShared) => SharedPtr_Equal(sh[s], sh[t])

\* Two SharedPtr share a block and cache different pointers: the payload
\* and, from the aliasing constructor, something else.
C16_Witness ==
    \E s, t \in SharedIds :
       /\ sh[s].live /\ sh[t].live
       /\ sh[s].block_ # Null /\ sh[s].block_ = sh[t].block_
       /\ sh[s].observer_ = sh[s].block_ /\ sh[t].observer_ # sh[s].observer_
       /\ ~SharedPtr_Equal(sh[s], sh[t])

\* ---------------------------------------------------------------------
\* Assignments between NumAssign SharedPtr objects: construction, copies,
\* aliases, a = b, a = std::move(b) and destruction, without WeakPtr objects.
\* ---------------------------------------------------------------------
AssignIds == 1..NumAssign

InitAssign ==
    /\ blocks = [b \in BlockIds |-> NoBlock]
    /\ sh = [s \in AssignIds |-> NoShared]
    /\ wk = [w \in WeakIds |-> NoWeak]
    /\ stack = <<>>
    /\ last = [op |-> "-", thrown |-> FALSE]
    /\ InitIntrusive /\ InitUnique

NextAssign ==
    \/ \E s \in AssignIds : SharedPtr_Default(s) /\ UNCHANGED <<ivars, uvars>>
    \/ \E s \in AssignIds, e \in BOOLEAN : SharedPtr_FromPtr(s, e) /\ UNCHANGED <<ivars, uvars>>
    \/ \E s \in AssignIds, e \in BOOLEAN : MakeShared(s, e) /\ UNCHANGED <<ivars, uvars>>
    \/ \E s, o \in AssignIds : SharedPtr_Copy(s, o) /\ UNCHANGED <<ivars, uvars>>
    \/ \E s, o \in AssignIds, p \in Ptrs : SharedPtr_Alias(s, o, p) /\ UNCHANGED <<ivars, uvars>>
    \/ \E d, o \in AssignIds : SharedPtr_Assign(d, o) /\ UNCHANGED <<ivars, uvars>>
    \/ \E d, o \in AssignIds : SharedPtr_MoveAssign(d, o) /\ UNCHANGED <<ivars, uvars>>
    \/ \E s \in AssignIds : SharedPtr_Dtor(s) /\ UNCHANGED <<ivars, uvars>>
    \/ Teardown_WeakThis /\ UNCHANGED <<ivars, uvars>>
    \/ Teardown_Return /\ UNCHANGED <<ivars, uvars>>

SpecAssign == InitAssign /\ [][NextAssign]_vars

\* What a = b does to the strong count of block b, a having block `old` and
\* b having block `new`: one less for a's previous block, one more for the
\* adopted block when b is copied.
AssignDelta(b, old, new, copy) ==
    (IF b = new /\ copy THEN 1 ELSE 0) - (IF b = old THEN 1 ELSE 0)

\* The step of a = b on handle d (fields of b: new, obs), up to its end or up
\* to the payload destructor of a's previous block, which runs exactly when
\* a was the last owner.
AssignStep(d, old, new, obs, copy) ==
    /\ \A b \in BlockIds :
          blocks'[b].ref_counter_ = blocks[b].ref_counter_ + AssignDelta(b, old, new, copy)
    /\ \A b \in BlockIds : blocks'[b].deleted = blocks[b].deleted /\ ~blocks'[b].ub
    /\ IF old # Null /\ blocks[old].ref_counter_ = 1 /\ ~(copy /\ old = new)
       THEN /\ stack' = <<AssignFrame(old, d, new, obs)>>
            /\ blocks'[old].payload = "destroying" /\ blocks'[old].dtors = 1
            /\ \A b \in BlockIds \ {old} : blocks'[b].dtors = blocks[b].dtors
       ELSE /\ stack' = <<>>
            /\ sh'[d].live /\ sh'[d].block_ = new /\ sh'[d].observer_ = obs
            /\ \A b \in BlockIds : blocks'[b].dtors = blocks[b].dtors

\* C17: when a = b completes, a has the block and pointer b had; the strong
\* count of a's previous block is one lower, and its payload is destroyed
\* exactly when a was its last owner; the adopted block has one more strong
\* reference after a copy assignment and as many as before after a move
\* assignment, which empties b; a = a and a = std::move(a) change no counter
\* and destroy nothing, also when a is the only owner.
C17_AssignAdopts ==
    [][/\ \A d, o \in DOMAIN sh : SharedPtr_Assign(d, o) =>
             /\ AssignStep(d, sh[d].block_, sh[o].block_, sh[o].observer_, TRUE)
             /\ \A x \in DOMAIN sh \ {d} : sh'[x] = sh[x]
             /\ d = o => blocks' = blocks /\ sh' = sh /\ stack' = <<>>
       /\ \A d, o \in DOMAIN sh : SharedPtr_MoveAssign(d, o) =>
             IF d = o
             THEN blocks' = blocks /\ sh' = sh /\ stack' = <<>>
             ELSE /\ AssignStep(d, sh[d].block_, sh[o].block_, sh[o].observer_, FALSE)
                  /\ sh'[o] = EmptyShared
                  /\ \A x \in DOMAIN sh \ {d, o} : sh'[x] = sh[x]
       /\ (InTeardown /\ Teardown_WeakThis) =>
             /\ sh' = sh /\ stack' = stack
             /\ \A b \in BlockIds : blocks'[b].ref_counter_ = blocks[b].ref_counter_
       /\ (InTeardown /\ Head(stack).op = "assign" /\ Teardown_Return) =>
             LET f == Head(stack) IN
             /\ stack' = <<>>
             /\ sh'[f.dst].live /\ sh'[f.dst].block_ = f.oblock /\ sh'[f.dst].observer_ = f.oobs
             /\ \A x \in DOMAIN sh \ {f.dst} : sh'[x] = sh[x]
             /\ blocks'[f.blk].payload = "destroyed" /\ blocks'[f.blk].dtors = 1
             /\ \A b \in BlockIds : /\ blocks'[b].ref_counter_ = blocks[b].ref_counter_
                                     /\ ~blocks'[b].ub]_vars

\* A copy assignment a = b has just completed after destroying the payload
\* a was the last owner of: a and b share b's block with strong count 2,
\* while a third SharedPtr owns another block.
C17_Witness ==
    /\ last.op = "Teardown_Return" /\ stack = <<>>
    /\ DOMAIN sh = AssignIds
    /\ \E a, b \in AssignIds :
          /\ a # b /\ sh[a].live /\ sh[b].live
          /\ sh[a].block_ # Null /\ sh[a].block_ = sh[b].block_
          /\ sh[a].observer_ = sh[b].observer_
          /\ blocks[sh[a].block_].ref_counter_ = 2
          /\ \E c \in BlockIds : c # sh[a].block_ /\ blocks[c].dtors = 1

\* The first step of an operation that releases the block `cur` of handle d:
\* cur loses exactly one strong reference, and its payload destructor starts
\* exactly when that was the last one; an empty handle touches no counter.
\* `rest` are the blocks the step may change besides.
ReleaseStep(cur, rest) ==
    /\ \A b \in BlockIds \ ({cur} \cup rest) : blocks'[b] = blocks[b]
    /\ \A b \in BlockIds : ~blocks'[b].ub
    /\ cur # Null =>
          /\ blocks'[cur].ref_counter_ = blocks[cur].ref_counter_ - 1
          /\ blocks'[cur].deleted = 0
          /\ IF blocks[cur].ref_counter_ = 1
             THEN /\ blocks'[cur].payload = "destroying" /\ blocks'[cur].dtors = 1
                  /\ blocks'[cur].weak_ref_counter_ = blocks[cur].weak_ref_counter_
                  /\ Len(stack') = 1 /\ Head(stack').blk = cur
             ELSE /\ blocks'[cur] = [blocks[cur] EXCEPT !.ref_counter_ = @ - 1,
                                                        !.weak_ref_counter_ = @ - 1]
                  /\ stack' = <<>>
    /\ cur = Null => stack' = <<>>

\* C18: Reset(), Reset(ptr) and ~SharedPtr() lower the strong count of the
\* handle's block by exactly one when the handle is not empty and touch no
\* counter of an existing block when it is empty; when Reset() completes the
\* handle is empty, and when Reset(ptr) completes the handle is on a new
\* ControlBlockWithPtr with strong count 1 that is not its previous block.
C18_ResetReleasesOnce ==
    [][/\ \A d \in SharedIds : SharedPtr_Reset(d) =>
             /\ ReleaseStep(sh[d].block_, {})
             /\ stack' = <<>> => sh'[d] = EmptyShared
             /\ stack' # <<>> => Head(stack') = AssignFrame(sh[d].block_, d, Null, Null)
       /\ \A d \in SharedIds, e \in BOOLEAN : SharedPtr_ResetPtr(d, e) =>
             LET new == NewBlock IN
             /\ ReleaseStep(sh[d].block_, {new})
             /\ new # sh[d].block_ /\ blocks[new].kind = "none"
             /\ blocks'[new].kind = "WithPtr" /\ blocks'[new].payload = "alive"
             /\ blocks'[new].ref_counter_ = 1
             /\ blocks'[new].weak_ref_counter_ = IF e THEN 2 ELSE 1
             /\ stack' = <<>> =>
                   sh'[d] = [live |-> TRUE, block_ |-> new, observer_ |-> new]
             /\ stack' # <<>> => Head(stack') = AssignFrame(sh[d].block_, d, new, new)
       /\ \A s \in SharedIds : SharedPtr_Dtor(s) =>
             /\ ReleaseStep(sh[s].block_, {})
             /\ ~sh'[s].live
       /\ (InTeardown /\ Head(stack).op = "assign" /\ Teardown_Return) =>
             LET f == Head(stack) IN
             /\ sh'[f.dst] = [live |-> TRUE, block_ |-> f.oblock, observer_ |-> f.oobs]
             /\ \A b \in BlockIds : /\ blocks'[b].ref_counter_ = blocks[b].ref_counter_
                                     /\ ~blocks'[b].ub
             /\ \A b \in BlockIds \ {f.blk} : blocks'[b] = blocks[b]]_vars

\* Reset(ptr) on the only SharedPtr that exists has just completed after
\* destroying the payload it owned: the handle is on a new ControlBlockWithPtr
\* with strong count 1.
C18_Witness ==
    /\ last.op = "Teardown_Return" /\ stack = <<>>
    /\ \E d \in SharedIds :
          /\ sh[d].live /\ sh[d].block_ # Null
          /\ \A x \in SharedIds \ {d} : ~sh[x].live
          /\ blocks[sh[d].block_].kind = "WithPtr"
          /\ blocks[sh[d].block_].ref_counter_ = 1
          /\ \E c \in BlockIds : c # sh[d].block_ /\ blocks[c].dtors = 1

\* The block c, had it been made by the other construction path.
Twin(c) ==
    IF c.kind = "WithPtr" THEN [c EXCEPT !.kind = "Owning"]
    ELSE IF c.kind = "Owning" THEN [c EXCEPT !.kind = "WithPtr"]
    ELSE c
TwinAt(bl, b) == [bl EXCEPT ![b] = Twin(@)]

\* C19: a ControlBlockWithPtr and a ControlBlockOwning in the same state
\* answer every call alike: from every state a block reaches, each method a
\* handle can call (through ControlBlockBase) takes the block and its twin of
\* the other class to twin states, with the same counters, the same start
\* and end of the payload destructor and the same deletion, GetRefCount()
\* returns the same value, and the two construction paths start from twin
\* states.  Handles call nothing else, so equal sequences of handle
\* operations on the two keep them twins step by step.
C19_BlocksEquivalent ==
    /\ \A e \in BOOLEAN : Twin(WithPtr_New(e)) = Owning_New(e)
    /\ HasFreeBlock => \A e \in BOOLEAN :
          MakeSharedHeap(blocks, NewBlock, e) =
             TwinAt(SharedPtr_FromPtrHeap(blocks, NewBlock, e), NewBlock)
    /\ \A b \in BlockIds : blocks[b].kind \in {"WithPtr", "Owning"} =>
          LET tw == TwinAt(blocks, b) IN
          /\ tw[b].kind # blocks[b].kind
          /\ IncrementRefCounter(tw, b) = TwinAt(IncrementRefCounter(blocks, b), b)
          /\ DecrementRefCounter(tw, b) = TwinAt(DecrementRefCounter(blocks, b), b)
          /\ DecrementRefCounterReturn(tw, b) = TwinAt(DecrementRefCounterReturn(blocks, b), b)
          /\ IncrementWeakRefCounter(tw, b) = TwinAt(IncrementWeakRefCounter(blocks, b), b)
          /\ DecrementWeakRefCounter(tw, b) = TwinAt(DecrementWeakRefCounter(blocks, b), b)
          /\ GetRefCount(tw, b) = GetRefCount(blocks, b)

\* A block of each class, both of EnableSharedFromThis payloads, have gone
\* through the same life: payload destroyed, one WeakPtr left on each.
C19_Witness ==
    /\ Quiescent
    /\ blocks[1].kind \in {"WithPtr", "Owning"}
    /\ blocks[2] = Twin(blocks[1])
    /\ blocks[1].esft /\ blocks[1].dtors = 1 /\ blocks[1].weak_ref_counter_ = 1
    /\ \E w \in WeakIds : wk[w].live /\ wk[w].block_ = 1
    /\ \E w \in WeakIds : wk[w].live /\ wk[w].block_ = 2

\* The handle s has just been constructed on the new block b of class
\* `kind`: strong count 1, and weak count 2 with weak_this_ on the block for
\* an EnableSharedFromThis payload, weak count 1 and no weak_this_ otherwise.
FreshBlock(s, b, kind, e) ==
    /\ sh'[s] = [live |-> TRUE, block_ |-> b, observer_ |-> b]
    /\ blocks'[b].kind = kind /\ blocks'[b].payload = "alive"
    /\ blocks'[b].ref_counter_ = 1
    /\ blocks'[b].weak_ref_counter_ = IF e THEN 2 ELSE 1
    /\ blocks'[b].weak_this_ = IF e THEN [live |-> TRUE, block_ |-> b, observer_ |-> b]
                               ELSE NoWeakThis
    /\ \A c \in BlockIds \ {b} : blocks'[c] = blocks[c]

\* C20: SharedPtr(Y*) and MakeShared end with strong count 1 and weak count
\* 2, weak_this_ on the new block, for an EnableSharedFromThis payload, and
\* with both counts 1 otherwise; SharedFromThis() then returns a SharedPtr on
\* that block and raises its strong count by one, and WeakFromThis() returns
\* a WeakPtr on that block and raises only the weak count by one.
C20_SelfReference ==
    [][/\ \A s \in SharedIds, e \in BOOLEAN :
             /\ SharedPtr_FromPtr(s, e) => FreshBlock(s, NewBlock, "WithPtr", e)
             /\ MakeShared(s, e) => FreshBlock(s, NewBlock, "Owning", e)
       /\ \A s, r \in SharedIds : SharedFromThis(s, r) =>
             LET b == sh[s].observer_ IN
             /\ ~last'.thrown
             /\ sh'[r] = [live |-> TRUE, block_ |-> b, observer_ |-> b]
             /\ OneMoreStrong(blocks, blocks', b)
             /\ wk' = wk
       /\ \A s \in SharedIds, w \in WeakIds : WeakFromThis(s, w) =>
             LET b == sh[s].observer_ IN
             /\ wk'[w] = [live |-> TRUE, block_ |-> b, observer_ |-> b]
             /\ blocks' = [blocks EXCEPT ![b].weak_ref_counter_ = @ + 1]
             /\ sh' = sh]_vars

\* SharedFromThis() has just returned a second SharedPtr of an
\* EnableSharedFromThis payload: strong count 2, weak count 3.
C20_Witness ==
    /\ last.op = "SharedFromThis"
    /\ \E s, r \in SharedIds :
          /\ s # r /\ sh[s].live /\ sh[s].block_ # Null /\ sh[r] = sh[s]
          /\ blocks[sh[s].block_].esft
          /\ blocks[sh[s].block_].ref_counter_ = 2
          /\ blocks[sh[s].block_].weak_ref_counter_ = 3
          /\ blocks[sh[s].block_].weak_this_.block_ = sh[s].block_

\* ---------------------------------------------------------------------
\* Payload destructors that try to promote: the body of the destructor, which
\* runs before the members and the EnableSharedFromThis base are destroyed,
\* calls Lock() or SharedPtr(const WeakPtr&) on a WeakPtr of the program, or
\* SharedFromThis() on the payload itself, and catches BadWeakPtr.
\* ---------------------------------------------------------------------
InDtorBody ==
    /\ InTeardown
    /\ blocks[Head(stack).blk].weak_this_.live = blocks[Head(stack).blk].esft

\* w.Lock() called from the payload destructor, the result constructed into s
Teardown_Lock(w, s) ==
    /\ InDtorBody /\ wk[w].live /\ ~sh[s].live
    /\ LET r == WeakPtr_LockResult(blocks, wk[w])
       IN /\ blocks' = r.bl
          /\ sh' = [sh EXCEPT ![s] = r.h]
          /\ last' = Op("Teardown_Lock", r.thrown)
    /\ UNCHANGED <<wk, stack>>

\* SharedPtr(w) called from the payload destructor, constructing s
Teardown_FromWeak(s, w) ==
    /\ InDtorBody /\ wk[w].live /\ ~sh[s].live
    /\ LET r == SharedPtr_Promote(blocks, wk[w])
       IN /\ blocks' = r.bl
          /\ sh' = [sh EXCEPT ![s] = r.h]
          /\ last' = Op("Teardown_FromWeak", r.thrown)
    /\ UNCHANGED <<wk, stack>>

\* SharedFromThis() called by the payload from its own destructor, the
\* result constructed into r
Teardown_SharedFromThis(r) ==
    /\ InDtorBody /\ blocks[Head(stack).blk].esft /\ ~sh[r].live
    /\ LET res == SharedPtr_Promote(blocks, blocks[Head(stack).blk].weak_this_)
       IN /\ blocks' = res.bl
          /\ sh' = [sh EXCEPT ![r] = res.h]
          /\ last' = Op("Teardown_SharedFromThis", res.thrown)
    /\ UNCHANGED <<wk, stack>>

NextPromote ==
    \/ Next
    \/ \E w \in WeakIds, s \in SharedIds : Teardown_Lock(w, s) /\ UNCHANGED <<ivars, uvars>>
    \/ \E s \in SharedIds, w \in WeakIds : Teardown_FromWeak(s, w) /\ UNCHANGED <<ivars, uvars>>
    \/ \E r \in SharedIds : Teardown_SharedFromThis(r) /\ UNCHANGED <<ivars, uvars>>

SpecPromote == Init /\ [][NextPromote]_vars

\* The payload destructor of block b has started and the block still exists.
PayloadGone(bl, b) == b # Null /\ bl[b].dtors > 0 /\ bl[b].deleted = 0

RefCounted_IncRef(ob, o) ==
    [ob EXCEPT ![o].count_ = Inc(@), ![o].held = TRUE,
               ![o].ub = @ \/ ob[o].state # "alive"]

\* RefCounted::DecRef: Deleter::Destroy deletes the object when the counter
\* has reached zero.
RefCounted_DecRef(ob, o) ==
    LET c == Dec(ob[o].count_)
    IN [ob EXCEPT ![o].count_ = c,
                  ![o].ub = @ \/ ob[o].state # "alive",
                  ![o].state = IF c = 0 THEN "destroyed" ELSE @,
                  ![o].destroyed = IF c = 0 THEN @ + 1 ELSE @]

RefCounted_RefCount(ob, o) == ob[o].count_

\* IntrusivePtr::UseCount
IntrusivePtr_UseCount(ob, h) ==
    IF h.observer_ # Null THEN RefCounted_RefCount(ob, h.observer_) ELSE 0

\* An object was used after its destruction: anything may follow.
IntrusiveUB == \E o \in ObjIds : objs[o].ub
IntrusiveIdle == ~IntrusiveUB

\* The pointers the program can hand to an IntrusivePtr: nullptr and the
\* objects that exist.
RawPtrs == {Null} \cup {o \in ObjIds : objs[o].state = "alive"}

IncRefIf(ob, p) == IF p # Null THEN RefCounted_IncRef(ob, p) ELSE ob
DecRefIf(ob, p) == IF p # Null THEN RefCounted_DecRef(ob, p) ELSE ob

\* new T(...) by the program: the counter starts at 0
NewObject(o) ==
    /\ IntrusiveIdle /\ objs[o].state = "none"
    /\ \A q \in ObjIds : q < o => objs[q].state # "none"
    /\ objs' = [objs EXCEPT ![o].state = "alive"]
    /\ UNCHANGED <<ip, svars, uvars>>

\* IntrusivePtr() / IntrusivePtr(nullptr)
IntrusivePtr_Default(i) ==
    /\ IntrusiveIdle /\ ~ip[i].live
    /\ ip' = [ip EXCEPT ![i] = [live |-> TRUE, observer_ |-> Null]]
    /\ UNCHANGED <<objs, svars, uvars>>

\* IntrusivePtr(T* ptr)
IntrusivePtr_FromPtr(i, p) ==
    /\ IntrusiveIdle /\ ~ip[i].live /\ p \in RawPtrs
    /\ ip' = [ip EXCEPT ![i] = [live |-> TRUE, observer_ |-> p]]
    /\ objs' = IncRefIf(objs, p)
    /\ UNCHANGED <<svars, uvars>>

\* MakeIntrusive<T>(args...)
MakeIntrusive(i, o) ==
    /\ IntrusiveIdle /\ ~ip[i].live /\ objs[o].state = "none"
    /\ \A q \in ObjIds : q < o => objs[q].state # "none"
    /\ ip' = [ip EXCEPT ![i] = [live |-> TRUE, observer_ |-> o]]
    /\ objs' = RefCounted_IncRef([objs EXCEPT ![o].state = "alive"], o)
    /\ UNCHANGED <<svars, uvars>>

\* IntrusivePtr(const IntrusivePtr& other)
IntrusivePtr_Copy(i, o) ==
    /\ IntrusiveIdle /\ ~ip[i].live /\ ip[o].live
    /\ ip' = [ip EXCEPT ![i] = [live |-> TRUE, observer_ |-> ip[o].observer_]]
    /\ objs' = IncRefIf(objs, ip[o].observer_)
    /\ UNCHANGED <<svars, uvars>>

\* IntrusivePtr(IntrusivePtr&& other)
IntrusivePtr_Move(i, o) ==
    /\ IntrusiveIdle /\ ~ip[i].live /\ ip[o].live
    /\ ip' = [ip EXCEPT ![i] = [live |-> TRUE, observer_ |-> ip[o].observer_],
                        ![o].observer_ = Null]
    /\ UNCHANGED <<objs, svars, uvars>>

\* d = o: the parameter `other` is a copy of o, Swap exchanges the pointers,
\* and ~IntrusivePtr() of `other` releases the pointer d had.
IntrusivePtr_Assign(d, o) ==
    /\ IntrusiveIdle /\ ip[d].live /\ ip[o].live
    /\ ip' = [ip EXCEPT ![d].observer_ = ip[o].observer_]
    /\ objs' = DecRefIf(IncRefIf(objs, ip[o].observer_), ip[d].observer_)
    /\ UNCHANGED <<svars, uvars>>

\* d = std::move(o): `other` is move-constructed from o
IntrusivePtr_MoveAssign(d, o) ==
    /\ IntrusiveIdle /\ ip[d].live /\ ip[o].live
    /\ LET ip1 == [ip EXCEPT ![o].observer_ = Null]
       IN /\ ip' = [ip1 EXCEPT ![d].observer_ = ip[o].observer_]
          /\ objs' = DecRefIf(objs, ip1[d].observer_)
    /\ UNCHANGED <<svars, uvars>>

\* ~IntrusivePtr()
IntrusivePtr_Dtor(i) ==
    /\ IntrusiveIdle /\ ip[i].live
    /\ ip' = [ip EXCEPT ![i] = NoIntrusive]
    /\ objs' = DecRefIf(objs, ip[i].observer_)
    /\ UNCHANGED <<svars, uvars>>

\* Reset()
IntrusivePtr_Reset(i) ==
    /\ IntrusiveIdle /\ ip[i].live
    /\ ip' = [ip EXCEPT ![i].observer_ = Null]
    /\ objs' = DecRefIf(objs, ip[i].observer_)
    /\ UNCHANGED <<svars, uvars>>

\* Reset(T* ptr): DecRef on the pointer held, then IncRef on ptr
IntrusivePtr_ResetPtr(i, p) ==
    /\ IntrusiveIdle /\ ip[i].live /\ p \in RawPtrs
    /\ ip' = [ip EXCEPT ![i].observer_ = p]
    /\ objs' = IncRefIf(DecRefIf(objs, ip[i].observer_), p)
    /\ UNCHANGED <<svars, uvars>>

\* Swap(IntrusivePtr& other)
IntrusivePtr_Swap(i, o) ==
    /\ IntrusiveIdle /\ ip[i].live /\ ip[o].live
    /\ ip' = [ip EXCEPT ![i].observer_ = ip[o].observer_,
                        ![o].observer_ = ip[i].observer_]
    /\ UNCHANGED <<objs, svars, uvars>>

NextIntrusive ==
    \/ \E o \in ObjIds : NewObject(o)
    \/ \E i \in IntrusiveIds : IntrusivePtr_Default(i)
    \/ \E i \in IntrusiveIds, p \in ObjIds \cup {Null} : IntrusivePtr_FromPtr(i, p)
    \/ \E i \in IntrusiveIds, o \in ObjIds : MakeIntrusive(i, o)
    \/ \E i, o \in IntrusiveIds : IntrusivePtr_Copy(i, o)
    \/ \E i, o \in IntrusiveIds : IntrusivePtr_Move(i, o)
    \/ \E d, o \in IntrusiveIds : IntrusivePtr_Assign(d, o)
    \/ \E d, o \in IntrusiveIds : IntrusivePtr_MoveAssign(d, o)
    \/ \E i \in IntrusiveIds : IntrusivePtr_Dtor(i)
    \/ \E i \in IntrusiveIds : IntrusivePtr_Reset(i)
    \/ \E i \in IntrusiveIds, p \in ObjIds \cup {Null} : IntrusivePtr_ResetPtr(i, p)
    \/ \E i, o \in IntrusiveIds : IntrusivePtr_Swap(i, o)

SpecIntrusive == Init /\ [][NextIntrusive]_vars

\* The live IntrusivePtr objects that point at object o.
IntrusiveOn(o) == {i \in IntrusiveIds : ip[i].live /\ ip[i].observer_ = o}

\* C21 as stated: RefCount() of an object is the number of live IntrusivePtr
\* on it; the object is destroyed once, exactly when the last IntrusivePtr on
\* it dies: not while an IntrusivePtr is on it, and not later; and it is not
\* used after its destruction; also after Reset(ptr) with the pointer that
\* the IntrusivePtr holds.
C21_IntrusiveCounts ==
    \A o \in ObjIds :
       /\ ~objs[o].ub
       /\ objs[o].state = "alive" => RefCounted_RefCount(objs, o) = Cardinality(IntrusiveOn(o))
       /\ objs[o].destroyed = (IF objs[o].state = "destroyed" THEN 1 ELSE 0)
       /\ objs[o].state = "destroyed" => IntrusiveOn(o) = {}
       /\ (objs[o].state = "alive" /\ objs[o].held) => IntrusiveOn(o) # {}

\* =====================================================================
\* UniquePtr<T, Deleter>: ptr_cp_ is the pair (ptr, deleter)
\* =====================================================================
\* ptr_cp_.GetSecond()(p): the deleter is called with p; deleting nullptr
\* does nothing.
CallDeleter(me, p) ==
    IF p = Null THEN me
    ELSE [me EXCEPT ![p].state = "deleted", ![p].deleted = @ + 1]

\* An object was deleted twice: anything may follow.
UniqueUB == \E m \in MemIds : mem[m].deleted > 1
UniqueIdle == ~UniqueUB

\* The pointers the program can hand to a UniquePtr: nullptr, the result of
\* a new `new T`, and a pointer that Release() gave back to it.
FreshMem(m) == mem[m].state = "none" /\ \A q \in MemIds : q < m => mem[q].state # "none"
Handable == {Null} \cup {m \in MemIds : FreshMem(m) \/ mem[m].released}

\* The program hands p over: it is allocated if new, and no longer the
\* program's to delete.
HandOver(me, p) ==
    IF p = Null THEN me ELSE [me EXCEPT ![p].state = "alive", ![p].released = FALSE]

\* explicit UniquePtr(T* ptr = nullptr)
UniquePtr_FromPtr(u, p) ==
    /\ UniqueIdle /\ ~up[u].live /\ p \in Handable
    /\ up' = [up EXCEPT ![u] = [live |-> TRUE, ptr |-> p, deleter |-> DefaultDeleter]]
    /\ mem' = HandOver(mem, p)
    /\ UNCHANGED <<svars, ivars>>

\* UniquePtr(T* ptr, FreakDeleter&& deleter)
UniquePtr_FromPtrDeleter(u, p, d) ==
    /\ UniqueIdle /\ ~up[u].live /\ p \in Handable
    /\ up' = [up EXCEPT ![u] = [live |-> TRUE, ptr |-> p, deleter |-> d]]
    /\ mem' = HandOver(mem, p)
    /\ UNCHANGED <<svars, ivars>>

\* Mutation: the moved-from UniquePtr keeps its pointer.
UniquePtr_Move_SourceKept(u, o) ==
    /\ UniqueIdle /\ ~up[u].live /\ up[o].live
    /\ up' = [up EXCEPT ![u] = [live |-> TRUE, ptr |-> up[o].ptr, deleter |-> up[o].deleter]]
    /\ UNCHANGED <<mem, svars, ivars>>

\* UniquePtr(UniquePtr<TBase, DeleterBase>&& other)
UniquePtr_Move(u, o) ==
    /\ UniqueIdle /\ ~up[u].live /\ up[o].live
    /\ up' = [up EXCEPT ![u] = [live |-> TRUE, ptr |-> up[o].ptr, deleter |-> up[o].deleter],
                        ![o].ptr = Null]
    /\ UNCHANGED <<mem, svars, ivars>>

\* operator=(UniquePtr<TBase, DeleterBase>&& other): nothing happens when
\* both hold the same pointer
UniquePtr_MoveAssign(d, o) ==
    /\ UniqueIdle /\ up[d].live /\ up[o].live
    /\ IF up[o].ptr = up[d].ptr
       THEN UNCHANGED <<up, mem>>
       ELSE /\ mem' = CallDeleter(mem, up[d].ptr)
            /\ up' = [up EXCEPT ![d].ptr = up[o].ptr, ![d].deleter = up[o].deleter,
                                ![o].ptr = Null]
    /\ UNCHANGED <<svars, ivars>>

\* operator=(std::nullptr_t)
UniquePtr_AssignNull(u) ==
    /\ UniqueIdle /\ up[u].live
    /\ mem' = CallDeleter(mem, up[u].ptr)
    /\ up' = [up EXCEPT ![u].ptr = Null]
    /\ UNCHANGED <<svars, ivars>>

\* ~UniquePtr()
UniquePtr_Dtor(u) ==
    /\ UniqueIdle /\ up[u].live
    /\ mem' = CallDeleter(mem, up[u].ptr)
    /\ up' = [up EXCEPT ![u] = NoUnique]
    /\ UNCHANGED <<svars, ivars>>

\* Release(): the pointer goes back to the program
UniquePtr_Release(u) ==
    /\ UniqueIdle /\ up[u].live
    /\ up' = [up EXCEPT ![u].ptr = Null]
    /\ mem' = IF up[u].ptr # Null THEN [mem EXCEPT ![up[u].ptr].released = TRUE] ELSE mem
    /\ UNCHANGED <<svars, ivars>>

\* Reset(T* ptr = nullptr): ptr is stored, then the deleter is called with
\* the pointer held before
UniquePtr_Reset(u, p) ==
    /\ UniqueIdle /\ up[u].live /\ p \in Handable
    /\ up' = [up EXCEPT ![u].ptr = p]
    /\ mem' = CallDeleter(HandOver(mem, p), up[u].ptr)
    /\ UNCHANGED <<svars, ivars>>

\* Swap(UniquePtr& other): std::swap of the pairs
UniquePtr_Swap(u, o) ==
    /\ UniqueIdle /\ up[u].live /\ up[o].live
    /\ up' = [up EXCEPT ![u].ptr = up[o].ptr, ![u].deleter = up[o].deleter,
                        ![o].ptr = up[u].ptr, ![o].deleter = up[u].deleter]
    /\ UNCHANGED <<mem, svars, ivars>>

NextUnique ==
    \/ \E u \in UniqueIds, p \in MemIds \cup {Null} : UniquePtr_FromPtr(u, p)
    \/ \E u \in UniqueIds, p \in MemIds \cup {Null}, d \in DeleterIds :
          UniquePtr_FromPtrDeleter(u, p, d)
    \/ \E u, o \in UniqueIds : UniquePtr_Move(u, o)
    \/ \E d, o \in UniqueIds : UniquePtr_MoveAssign(d, o)
    \/ \E u \in UniqueIds : UniquePtr_AssignNull(u)
    \/ \E u \in UniqueIds : UniquePtr_Dtor(u)
    \/ \E u \in UniqueIds : UniquePtr_Release(u)
    \/ \E u \in UniqueIds, p \in MemIds \cup {Null} : UniquePtr_Reset(u, p)
    \/ \E u, o \in UniqueIds : UniquePtr_Swap(u, o)

SpecUnique == Init /\ [][NextUnique]_vars

\* The live UniquePtr objects that hold pointer m.
UniqueOn(m) == {u \in UniqueIds : up[u].live /\ up[u].ptr = m}

\* C23: every pointer that was handed to a UniquePtr is in one of three
\* situations: held by exactly one live UniquePtr and not deleted; given
\* back by Release(), held by none and not deleted; or held by none and
\* deleted by exactly one call of a deleter.
C23_UniqueOwnership ==
    \A m \in MemIds :
       /\ Cardinality(UniqueOn(m)) <= 1
       /\ mem[m].state = "none" => mem[m].deleted = 0 /\ UniqueOn(m) = {}
       /\ (mem[m].state = "alive" /\ ~mem[m].released) =>
             mem[m].deleted = 0 /\ Cardinality(UniqueOn(m)) = 1
       /\ mem[m].released =>
             mem[m].state = "alive" /\ mem[m].deleted = 0 /\ UniqueOn(m) = {}
       /\ mem[m].state = "deleted" =>
             mem[m].deleted = 1 /\ UniqueOn(m) = {} /\ ~mem[m].released

\* One pointer has been deleted, one is back with the program after
\* Release(), and one is held by a UniquePtr next to an empty UniquePtr.
C23_Witness ==
    /\ \E m \in MemIds : mem[m].state = "deleted" /\ mem[m].deleted = 1
    /\ \E m \in MemIds : mem[m].released
    /\ \E u, v \in UniqueIds :
          /\ up[u].live /\ up[u].ptr # Null /\ up[u].deleter # DefaultDeleter
          /\ up[v].live /\ up[v].ptr = Null

====
